---- MODULE Spec2Model ----
(***************************************************************************)
(* A model of autosurgeon: hydration of typed values from an automerge     *)
(* document and reconciliation of typed values into it.                    *)
(*                                                                         *)
(* The document is modelled as the set of operations it has seen (the way  *)
(* the document engine stores it): fork copies the set, merge is the union *)
(* of two sets, and everything a reader sees (the winning value of a       *)
(* property, its conflicts, the order of a list, the characters of a text, *)
(* the value of a counter) is computed from the set.                       *)
(***************************************************************************)
EXTENDS Integers, Sequences, FiniteSets, TLC

(***************************************************************************)
(* Bounds of the model.                                                    *)
(***************************************************************************)
\* reconciles of a freshly built value, and operations on the held value,
\* in one run of the slot machine
MaxFresh == 2

MaxHeld == 3

(***************************************************************************)
(* Generic helpers.                                                        *)
(***************************************************************************)
ROOT == <<0, 0>>

HEAD == <<0, 0>>

IdLess(a, b) == a[1] < b[1] \/ (a[1] = b[1] /\ a[2] < b[2])

MaxId(S) == CHOOSE m \in S : \A x \in S : x = m \/ IdLess(x, m)

\* `let v = ...;` followed by the code that uses it
With(v, Body(_)) == Body(v)

RECURSIVE SortDesc(_)
SortDesc(S) == IF S = {} THEN <<>>
               ELSE With(MaxId(S), LAMBDA m : <<m>> \o SortDesc(S \ {m}))

RECURSIVE SumInc(_)
SumInc(S) == IF S = {} THEN 0
             ELSE With(CHOOSE x \in S : TRUE, LAMBDA o : o.val.n + SumInc(S \ {o}))

Range(f) == {f[i] : i \in DOMAIN f}

(***************************************************************************)
(* Scalar values of the document (automerge::ScalarValue) and the three    *)
(* object types.  One record shape for all of them.                        *)
(***************************************************************************)
Sc(kind, n, s) == [kind |-> kind, n |-> n, s |-> s]

Null == Sc("Null", 0, "")

ScStr(s) == Sc("Str", 0, s)

ScUint(n) == Sc("Uint", n, "")

ScInt(n) == Sc("Int", n, "")

ScBool(b) == Sc("Bool", IF b THEN 1 ELSE 0, "")

ScCounter(n) == Sc("Counter", n, "")

ObjKinds == {"Map", "List", "Text"}

Obj(kind) == Sc(kind, 0, "")

(***************************************************************************)
(* The document: doc.rs, the ReadDoc and Doc traits over AutoCommit.       *)
(*   ops     the operations seen so far                                    *)
(*   actor   the actor of this handle                                      *)
(*   changes the committed changes; the heads are the changes no other     *)
(*           change depends on                                             *)
(*   dirty   the handle has operations in an open transaction              *)
(*   err     the error of the call in progress ("ok" when none): once an   *)
(*           error is set every later write of the same call is skipped,   *)
(*           as `?` aborts the call                                        *)
(***************************************************************************)
NewDoc(actor) ==
    [ops |-> {}, actor |-> actor, changes |-> {}, dirty |-> FALSE,
     err |-> "ok"]

MaxCtr(doc) == IF doc.ops = {} THEN 0
               ELSE MaxId({o.id : o \in doc.ops})[1]

NextId(doc) == <<MaxCtr(doc) + 1, doc.actor>>

Op(id, obj, prop, elem, ins, action, val, pred) ==
    [id |-> id, obj |-> obj, prop |-> prop, elem |-> elem, insert |-> ins,
     action |-> action, val |-> val, pred |-> pred]

Overwritten(doc, o) ==
    \E q \in doc.ops : q.action # "inc" /\ o.id \in q.pred

\* the operations that give a value to property `prop` of map `obj`
MapOps(doc, obj, prop) ==
    {o \in doc.ops : /\ o.obj = obj /\ o.prop = prop /\ o.elem = HEAD
                     /\ ~o.insert
                     /\ o.action \in {"set", "make"}
                     /\ ~Overwritten(doc, o)}

\* the operations that give a value to element `e` of list `obj`
ElemOps(doc, obj, e) ==
    {o \in doc.ops : /\ o.obj = obj
                     /\ o.action \in {"set", "make"}
                     /\ \/ (o.insert /\ o.id = e)
                        \/ (~o.insert /\ o.elem = e /\ o.prop = "")
                     /\ ~Overwritten(doc, o)}

RECURSIVE RgaOrder(_, _, _)
RECURSIVE RgaKids(_, _, _)
RgaKids(doc, obj, kids) ==
    IF kids = <<>> THEN <<>>
    ELSE <<kids[1]>> \o RgaOrder(doc, obj, kids[1]) \o RgaKids(doc, obj, Tail(kids))

RgaOrder(doc, obj, ref) ==
    RgaKids(doc, obj,
            SortDesc({o.id : o \in {x \in doc.ops : x.obj = obj /\ x.insert /\ x.elem = ref}}))

\* ids of the elements of list or text `obj` that have a value, in order
Elems(doc, obj) ==
    SelectSeq(RgaOrder(doc, obj, HEAD), LAMBDA e : ElemOps(doc, obj, e) # {})

IsIndex(p) == p.kind = "idx"

Key(s) == [kind |-> "key", key |-> s, idx |-> 0]

Index(i) == [kind |-> "idx", key |-> "", idx |-> i]

\* ReadDoc::object_type
DocObjectType(doc, obj) ==
    IF obj = ROOT THEN "Map"
    ELSE IF \E o \in doc.ops : o.id = obj /\ o.action = "make"
         THEN (CHOOSE o \in doc.ops : o.id = obj /\ o.action = "make").val.kind
         ELSE "None"

NotThere == [valid |-> FALSE, key |-> "", elem |-> HEAD, ops |-> {}]

\* what a property of an object names: whether it can be written (a key of a
\* map, an index inside a list or text), the key and the element it stands
\* for, and the visible operations there (all the conflicting values)
At(doc, obj, prop) ==
    With(DocObjectType(doc, obj), LAMBDA t :
        IF t = "Map"
        THEN IF IsIndex(prop) THEN NotThere
             ELSE [valid |-> TRUE, key |-> prop.key, elem |-> HEAD,
                   ops |-> MapOps(doc, obj, prop.key)]
        ELSE IF t \in {"List", "Text"} /\ IsIndex(prop)
        THEN With(Elems(doc, obj), LAMBDA es :
                 IF prop.idx < Len(es)
                 THEN [valid |-> TRUE, key |-> "", elem |-> es[prop.idx + 1],
                       ops |-> ElemOps(doc, obj, es[prop.idx + 1])]
                 ELSE NotThere)
        ELSE NotThere)

\* the visible operations at a property
PropOps(doc, obj, prop) == At(doc, obj, prop).ops

Winner(S) == CHOOSE o \in S : o.id = MaxId({x.id : x \in S})

\* the current value of a counter operation: its start plus its increments
CounterValue(doc, o) ==
    o.val.n + SumInc({q \in doc.ops : q.action = "inc" /\ o.id \in q.pred})

\* ReadDoc::get: the winning value and its object id, or none
DocGet(doc, obj, prop) ==
    With(PropOps(doc, obj, prop), LAMBDA S :
        IF S = {} THEN [some |-> FALSE, val |-> Null, id |-> ROOT]
        ELSE With(Winner(S), LAMBDA w :
                 [some |-> TRUE,
                  val  |-> IF w.val.kind = "Counter" THEN ScCounter(CounterValue(doc, w))
                           ELSE w.val,
                  id   |-> w.id]))

\* ReadDoc::length
DocLength(doc, obj) ==
    IF DocObjectType(doc, obj) \in {"List", "Text"} THEN Len(Elems(doc, obj))
    ELSE Cardinality({o.prop : o \in {x \in doc.ops : x.obj = obj /\ MapOps(doc, obj, x.prop) # {}}})

\* ReadDoc::text: the characters of a text object
DocText(doc, obj) ==
    With(Elems(doc, obj), LAMBDA es :
        [i \in 1..Len(es) |-> Winner(ElemOps(doc, obj, es[i])).val.s])

\* ReadDoc::map_range: the keys of a map that have a value
DocKeys(doc, obj) ==
    {o.prop : o \in {x \in doc.ops : x.obj = obj /\ x.elem = HEAD /\ ~x.insert
                                      /\ MapOps(doc, obj, x.prop) # {}}}

\* ReadDoc::get_heads (AutoCommit: base_heads, the heads without the open
\* transaction)
DocGetHeads(doc) ==
    {c.id : c \in {x \in doc.changes : \A d \in doc.changes : x.id \notin d.deps}}

Fail(doc, e) == IF doc.err = "ok" THEN [doc EXCEPT !.err = e] ELSE doc

AddOp(doc, o) ==
    [doc EXCEPT !.ops = @ \cup {o}, !.dirty = TRUE]

\* variant: every put is written, equal or not
IsNoopNever(doc, S, val) == FALSE

\* a put of the scalar that is already the only value there changes nothing
\* (a counter that has been incremented is no longer the scalar it started as)
IsNoop(doc, S, val) ==
    /\ Cardinality(S) = 1
    /\ \A o \in S : /\ o.action = "set" /\ o.val = val
                     /\ \A q \in doc.ops : ~(q.action = "inc" /\ o.id \in q.pred)

\* the operation that writes at `at`, over the operations `over`
PropOp(doc, obj, at, action, val, over) ==
    Op(NextId(doc), obj, at.key, at.elem, FALSE, action, val, {o.id : o \in over})

\* Doc::put
DocPut(doc, obj, prop, val) ==
    IF doc.err # "ok" THEN doc
    ELSE With(At(doc, obj, prop), LAMBDA at :
             IF ~at.valid THEN Fail(doc, "Automerge")
             ELSE IF IsNoop(doc, at.ops, val) THEN doc
             ELSE AddOp(doc, PropOp(doc, obj, at, "set", val, at.ops)))

\* Doc::put_object; the id of the new object is NextId of the document before
DocPutObject(doc, obj, prop, kind) ==
    IF doc.err # "ok" THEN doc
    ELSE With(At(doc, obj, prop), LAMBDA at :
             IF ~at.valid THEN Fail(doc, "Automerge")
             ELSE AddOp(doc, PropOp(doc, obj, at, "make", Obj(kind), at.ops)))

\* the operation that inserts after the first `index` elements `es`
InsertOp(doc, obj, es, index, action, val) ==
    Op(NextId(doc), obj, "", IF index = 0 THEN HEAD ELSE es[index], TRUE, action, val, {})

\* an insert of `val` by `action` ("set" a scalar, "make" an object)
InsertAt(doc, obj, index, action, val) ==
    IF doc.err # "ok" THEN doc
    ELSE IF DocObjectType(doc, obj) \notin {"List", "Text"} THEN Fail(doc, "Automerge")
    ELSE With(Elems(doc, obj), LAMBDA es :
             IF index > Len(es) THEN Fail(doc, "Automerge")
             ELSE AddOp(doc, InsertOp(doc, obj, es, index, action, val)))

\* Doc::insert
DocInsert(doc, obj, index, val) == InsertAt(doc, obj, index, "set", val)

\* Doc::insert_object
DocInsertObject(doc, obj, index, kind) == InsertAt(doc, obj, index, "make", Obj(kind))

\* Doc::increment
DocIncrement(doc, obj, prop, by) ==
    IF doc.err # "ok" THEN doc
    ELSE With(At(doc, obj, prop), LAMBDA at :
             IF ~at.valid THEN Fail(doc, "Automerge")
             ELSE IF \A o \in at.ops : o.val.kind # "Counter" THEN Fail(doc, "Automerge")
             ELSE AddOp(doc, PropOp(doc, obj, at, "inc", ScInt(by),
                                    {o \in at.ops : o.val.kind = "Counter"})))

\* Doc::delete
DocDelete(doc, obj, prop) ==
    IF doc.err # "ok" THEN doc
    ELSE With(At(doc, obj, prop), LAMBDA at :
             IF ~at.valid THEN Fail(doc, "Automerge")
             ELSE IF at.ops = {} THEN doc
             ELSE AddOp(doc, PropOp(doc, obj, at, "del", Null, at.ops)))

RECURSIVE DeleteN(_, _, _, _)
DeleteN(doc, obj, pos, n) ==
    IF n = 0 THEN doc ELSE DeleteN(DocDelete(doc, obj, Index(pos)), obj, pos, n - 1)

RECURSIVE InsertChars(_, _, _, _)
InsertChars(doc, obj, pos, text) ==
    IF text = <<>> THEN doc
    ELSE InsertChars(DocInsert(doc, obj, pos, ScStr(text[1])), obj, pos + 1, Tail(text))

\* Doc::splice_text: a negative `del` deletes the characters before `pos`
DocSpliceText(doc, obj, pos, del, text) ==
    LET start == IF del < 0 THEN pos + del ELSE pos
        n     == IF del < 0 THEN 0 - del ELSE del
    IN
    IF doc.err # "ok" THEN doc
    ELSE IF DocObjectType(doc, obj) # "Text" \/ start < 0
            \/ start + n > Len(Elems(doc, obj))
    THEN Fail(doc, "Automerge")
    ELSE InsertChars(DeleteN(doc, obj, start, n), obj, start, text)

\* closing the open transaction: a new change on top of the current heads
Commit(doc) ==
    IF ~doc.dirty THEN doc
    ELSE [doc EXCEPT !.dirty = FALSE,
                     !.changes = @ \cup {[id |-> <<MaxCtr(doc), doc.actor>>,
                                          deps |-> DocGetHeads(doc)]}]

\* AutoCommit::fork().with_actor(actor)
DocFork(doc, actor) == [Commit(doc) EXCEPT !.actor = actor]

\* AutoCommit::merge
DocMerge(doc, other) ==
    [Commit(doc) EXCEPT !.ops = @ \cup other.ops,
                        !.changes = @ \cup Commit(other).changes]


(***************************************************************************)
(* Typed values of the program and their types.                            *)
(*   String, u64            scalars                                        *)
(*   Option<T>              `some`, and `inner` when some                  *)
(*   Text                   Fresh(value) or Rehydrated{value, edits,       *)
(*                          from_heads}                                    *)
(*   Counter                Fresh(v) or Rehydrated{original, increment}    *)
(*   Struct                 named fields; key = "id" when the field `id`   *)
(*                          is the key, "fresh" when the type has a key    *)
(*                          but the instance cannot supply it, "none"      *)
(*   Vec<T>                 items                                          *)
(*   HashMap<String, T>,    entries, in the order the map iterates them    *)
(*   BTreeMap<String, T>                                                   *)
(***************************************************************************)
TString == [ty |-> "String"]

TU64 == [ty |-> "u64"]

TText == [ty |-> "Text"]

TCounter == [ty |-> "Counter"]

TOption(t) == [ty |-> "Option", of |-> t]

TVec(t) == [ty |-> "Vec", of |-> t]

TMap(t) == [ty |-> "Map", of |-> t]

TStruct(key, fields) == [ty |-> "Struct", key |-> key, fields |-> fields]

VUnit == [ty |-> "unit"]

VString(s) == [ty |-> "String", s |-> s]

VU64(n) == [ty |-> "u64", n |-> n]

VNone(t) == [ty |-> "Option", of |-> t, some |-> FALSE]

VSome(t, v) == [ty |-> "Option", of |-> t, some |-> TRUE, inner |-> v]

\* Text::with_value
TextWithValue(value) ==
    [ty |-> "Text", state |-> "Fresh", value |-> value, edits |-> <<>>, from_heads |-> {}]

TextRehydrated(value, edits, heads) ==
    [ty |-> "Text", state |-> "Rehydrated", value |-> value, edits |-> edits,
     from_heads |-> heads]

\* Counter::with_value
CounterWithValue(v) ==
    [ty |-> "Counter", state |-> "Fresh", v |-> v, original |-> 0, increment |-> 0]

CounterRehydrated(original, increment) ==
    [ty |-> "Counter", state |-> "Rehydrated", v |-> 0, original |-> original,
     increment |-> increment]

VStruct(key, fields) == [ty |-> "Struct", key |-> key, fields |-> fields]

VVec(t, items) == [ty |-> "Vec", of |-> t, items |-> items]

VMap(t, entries) == [ty |-> "Map", of |-> t, entries |-> entries]

\* a tuple (N0, N1, ...)
VTuple(items) == [ty |-> "Tuple", items |-> items]

F(name, v) == [name |-> name, v |-> v]

RECURSIVE TypeOf(_)
TypeOf(v) ==
    IF v.ty = "Struct"
    THEN TStruct(v.key, [i \in DOMAIN v.fields |->
                            [name |-> v.fields[i].name, t |-> TypeOf(v.fields[i].v)]])
    ELSE IF v.ty \in {"Vec", "Option", "Map"} THEN [ty |-> v.ty, of |-> v.of]
    ELSE IF v.ty = "Tuple" THEN [ty |-> "Tuple", items |-> [i \in DOMAIN v.items |-> TypeOf(v.items[i])]]
    ELSE [ty |-> v.ty]

\* Text::as_str
AsStr(t) == t.value

\* Counter::value
CounterValueOf(c) == IF c.state = "Fresh" THEN c.v ELSE c.original + c.increment

\* variant: a Rehydrated counter adds the delta to what it read
CounterIncrementOriginal(c, by) ==
    IF c.state = "Fresh" THEN [c EXCEPT !.v = @ + by]
    ELSE [c EXCEPT !.original = @ + by]

\* Counter::increment
CounterIncrement(c, by) ==
    IF c.state = "Fresh" THEN [c EXCEPT !.v = @ + by]
    ELSE [c EXCEPT !.increment = @ + by]

\* A String is the sequence of its characters.  EAcute stands for U+00E9,
\* two bytes in UTF-8; every other character of the model is one byte.
EAcute == "e_acute"

\* char::len_utf8
Utf8Len(c) == IF c = EAcute THEN 2 ELSE 1

\* str::len: the length in bytes
RECURSIVE ByteLen(_)
ByteLen(value) == IF value = <<>> THEN 0 ELSE Utf8Len(Head(value)) + ByteLen(Tail(value))

\* the number of characters that end at or before byte offset `off`
RECURSIVE CharsBefore(_, _)
CharsBefore(value, off) ==
    IF value = <<>> \/ off < Utf8Len(Head(value)) THEN 0
    ELSE 1 + CharsBefore(Tail(value), off - Utf8Len(Head(value)))

\* str::is_char_boundary
IsCharBoundary(value, off) ==
    off >= 0 /\ off <= ByteLen(value) /\ ByteLen(SubSeq(value, 1, CharsBefore(value, off))) = off

\* String::replace_range(start..end, insert): start and end are byte offsets
\* on character boundaries
ReplaceRange(value, start, end, insert) ==
    SubSeq(value, 1, CharsBefore(value, start)) \o insert
    \o SubSeq(value, CharsBefore(value, end) + 1, Len(value))

Abs(n) == IF n < 0 THEN 0 - n ELSE n

\* usize::saturating_sub
SaturatingSub(a, b) == IF a < b THEN 0 ELSE a - b

\* Text::splice
TextSplice(t, pos, del, insert) ==
    LET start == IF del < 0 THEN SaturatingSub(pos, Abs(del)) ELSE pos
        value == ReplaceRange(t.value, start, start + Abs(del), insert)
    IN  IF t.state = "Fresh" THEN [t EXCEPT !.value = value]
        ELSE [t EXCEPT !.value = value,
                       !.edits = Append(@, [pos |-> pos, delete |-> del, insert |-> insert])]

\* PartialEq of the values: Text compares as_str, Counter compares value()
RECURSIVE Norm(_)
Norm(v) ==
    IF v.ty = "Text" THEN [ty |-> "Text", value |-> AsStr(v)]
    ELSE IF v.ty = "Counter" THEN [ty |-> "Counter", n |-> CounterValueOf(v)]
    ELSE IF v.ty = "Struct"
    THEN [v EXCEPT !.fields = [i \in DOMAIN v.fields |->
                                  [name |-> v.fields[i].name, v |-> Norm(v.fields[i].v)]]]
    ELSE IF v.ty \in {"Vec", "Tuple"}
    THEN [v EXCEPT !.items = [i \in DOMAIN v.items |-> Norm(v.items[i])]]
    ELSE IF v.ty = "Map"
    THEN [v EXCEPT !.entries = [i \in DOMAIN v.entries |->
                                   [name |-> v.entries[i].name, v |-> Norm(v.entries[i].v)]]]
    ELSE IF v.ty = "Option" /\ v.some THEN [v EXCEPT !.inner = Norm(v.inner)]
    ELSE v

(***************************************************************************)
(* Keys: reconcile.rs LoadKey, Reconcile::key, Reconcile::hydrate_key.     *)
(***************************************************************************)
NoKey == [tag |-> "NoKey", k |-> Null]

KeyNotFound == [tag |-> "KeyNotFound", k |-> Null]

Found(k) == [tag |-> "Found", k |-> k]

FieldIndex(fields, name) == CHOOSE i \in DOMAIN fields : fields[i].name = name

\* Reconcile::key
RECURSIVE KeyOf(_)
KeyOf(v) ==
    IF v.ty = "String" THEN Found(ScStr(v.s))
    ELSE IF v.ty = "u64" THEN Found(ScUint(v.n))
    ELSE IF v.ty = "Option" THEN IF v.some THEN KeyOf(v.inner) ELSE KeyNotFound
    ELSE IF v.ty = "Struct"
    THEN IF v.key = "id" THEN KeyOf(v.fields[FieldIndex(v.fields, "id")].v)
         ELSE IF v.key = "fresh" THEN KeyNotFound
         ELSE NoKey
    ELSE NoKey

(***************************************************************************)
(* Hydration: hydrate.rs, hydrate/impls.rs, text.rs, counter.rs.           *)
(* A result is [err, v]: err = "ok" and the value, or the error kind       *)
(* ("Unexpected", "Automerge").                                            *)
(***************************************************************************)
HOk(v) == [err |-> "ok", v |-> v]

HErr(e) == [err |-> e, v |-> VUnit]

\* impl Hydrate for Text: hydrate_text
\* variant: the hydrated Text does not take the heads of the document
HydrateTextNoHeads(doc, id) == HOk(TextRehydrated(DocText(doc, id), <<>>, {}))

HydrateText(doc, id) == HOk(TextRehydrated(DocText(doc, id), <<>>, DocGetHeads(doc)))

\* impl Hydrate for Counter: hydrate_counter
HydrateCounter(c) == HOk(CounterRehydrated(c, 0))

RECURSIVE Hydrate(_, _, _, _)
RECURSIVE HydrateValue(_, _, _)
RECURSIVE HydrateFields(_, _, _, _)
RECURSIVE HydrateItems(_, _, _, _)
RECURSIVE HydrateEntries(_, _, _, _)

\* the fields of a struct, in declaration order: hydrate_prop(doc, obj, name)?
HydrateFields(doc, id, fields, i) ==
    IF i > Len(fields) THEN [err |-> "ok", fs |-> <<>>]
    ELSE With(Hydrate(doc, id, Key(fields[i].name), fields[i].t), LAMBDA r :
             IF r.err # "ok" THEN [err |-> r.err, fs |-> <<>>]
             ELSE With(HydrateFields(doc, id, fields, i + 1), LAMBDA rest :
                      IF rest.err # "ok" THEN rest
                      ELSE [err |-> "ok", fs |-> <<F(fields[i].name, r.v)>> \o rest.fs]))

\* impl Hydrate for Vec<T>: hydrate_seq
HydrateItems(doc, id, t, i) ==
    IF i >= DocLength(doc, id) THEN [err |-> "ok", fs |-> <<>>]
    ELSE With(Hydrate(doc, id, Index(i), t), LAMBDA r :
             IF r.err # "ok" THEN [err |-> r.err, fs |-> <<>>]
             ELSE With(HydrateItems(doc, id, t, i + 1), LAMBDA rest :
                      IF rest.err # "ok" THEN rest
                      ELSE [err |-> "ok", fs |-> <<r.v>> \o rest.fs]))

\* impl Hydrate for (N0, N1, ...): the elements of hydrate_seq
RECURSIVE HydrateTupleItems(_, _, _, _)
HydrateTupleItems(doc, id, ts, i) ==
    IF i >= Len(ts) THEN [err |-> "ok", fs |-> <<>>]
    ELSE With(Hydrate(doc, id, Index(i), ts[i + 1]), LAMBDA r :
             IF r.err # "ok" THEN [err |-> r.err, fs |-> <<>>]
             ELSE With(HydrateTupleItems(doc, id, ts, i + 1), LAMBDA rest :
                      IF rest.err # "ok" THEN rest
                      ELSE [err |-> "ok", fs |-> <<r.v>> \o rest.fs]))

\* impl Hydrate for (N0, N1, ...): hydrate_seq
HydrateTuple(doc, id, T) ==
    IF DocLength(doc, id) # Len(T.items) THEN HErr("Unexpected")
    ELSE With(HydrateTupleItems(doc, id, T.items, 0), LAMBDA r :
             IF r.err = "ok" THEN HOk(VTuple(r.fs)) ELSE HErr(r.err))

\* the keys of the model in the order a map range yields them
MapKeyOrder ==
    <<"a", "address", "admin", "b", "c", "id", "item", "l", "line_one", "name", "s", "user", "x">>

\* impl Hydrate for HashMap<K, V>, BTreeMap<K, V>: V::hydrate(doc, obj, key)?
\* for every key of the map range
HydrateEntries(doc, id, t, keys) ==
    IF keys = <<>> THEN [err |-> "ok", fs |-> <<>>]
    ELSE With(Hydrate(doc, id, Key(Head(keys)), t), LAMBDA r :
             IF r.err # "ok" THEN [err |-> r.err, fs |-> <<>>]
             ELSE With(HydrateEntries(doc, id, t, Tail(keys)), LAMBDA rest :
                      IF rest.err # "ok" THEN rest
                      ELSE [err |-> "ok", fs |-> <<F(Head(keys), r.v)>> \o rest.fs]))

\* the per-kind constructors of type T applied to the value `g` read from
\* the document; every constructor a type does not define is Unexpected
HydrateValue(doc, g, T) ==
    IF g.val.kind = "Map"
    THEN IF T.ty = "Struct"
         THEN With(HydrateFields(doc, g.id, T.fields, 1), LAMBDA r :
                  IF r.err = "ok" THEN HOk(VStruct(T.key, r.fs)) ELSE HErr(r.err))
         ELSE IF T.ty = "Map"
         THEN With(HydrateEntries(doc, g.id, T.of,
                                  SelectSeq(MapKeyOrder, LAMBDA k : k \in DocKeys(doc, g.id))),
                   LAMBDA r : IF r.err = "ok" THEN HOk(VMap(T.of, r.fs)) ELSE HErr(r.err))
         ELSE HErr("Unexpected")
    ELSE IF g.val.kind = "List"
    THEN IF T.ty = "Vec"
         THEN With(HydrateItems(doc, g.id, T.of, 0), LAMBDA r :
                  IF r.err = "ok" THEN HOk(VVec(T.of, r.fs)) ELSE HErr(r.err))
         ELSE IF T.ty = "Tuple" THEN HydrateTuple(doc, g.id, T)
         ELSE HErr("Unexpected")
    ELSE IF g.val.kind = "Text"
    THEN IF T.ty = "Text" THEN HydrateText(doc, g.id) ELSE HErr("Unexpected")
    ELSE IF g.val.kind = "Str"
    THEN IF T.ty = "String" THEN HOk(VString(g.val.s)) ELSE HErr("Unexpected")
    ELSE IF g.val.kind = "Uint"
    THEN IF T.ty = "u64" THEN HOk(VU64(g.val.n)) ELSE HErr("Unexpected")
    ELSE IF g.val.kind = "Counter"
    THEN IF T.ty = "Counter" THEN HydrateCounter(g.val.n) ELSE HErr("Unexpected")
    ELSE HErr("Unexpected")

\* Hydrate::hydrate, and the override of impl Hydrate for Option<T>
Hydrate(doc, obj, prop, T) ==
    With(DocGet(doc, obj, prop), LAMBDA g :
        IF T.ty = "Option"
        THEN IF ~g.some THEN HErr("Unexpected")
             ELSE IF g.val.kind = "Null" THEN HOk(VNone(T.of))
             ELSE With(HydrateValue(doc, g, T.of), LAMBDA r :
                      IF r.err = "ok" THEN HOk(VSome(T.of, r.v)) ELSE r)
        ELSE IF ~g.some THEN HErr("Unexpected")
        ELSE HydrateValue(doc, g, T))

\* hydrate_prop
HydrateProp(doc, obj, prop, T) == Hydrate(doc, obj, prop, T)

\* hydrate: the whole document as a map
HydrateRoot(doc, T) == HydrateValue(doc, [some |-> TRUE, val |-> Obj("Map"), id |-> ROOT], T)

(***************************************************************************)
(* hydrate_path.  The result is [err, some, v, reads]: Ok(Some(v)),        *)
(* Ok(None) or Err, and the properties read from the document, in order,   *)
(* each with the position in the path of the segment that was looked up.   *)
(***************************************************************************)
PNone(reads) == [err |-> "ok", some |-> FALSE, v |-> VUnit, reads |-> reads]

\* the result of hydrating the last segment: Ok(Some(v)) or Err
PSome(r, reads) == [err |-> r.err, some |-> r.err = "ok", v |-> r.v, reads |-> reads]

Read(obj, prop, seg) == [obj |-> obj, prop |-> prop, seg |-> seg]

PropFits(prop, objType) ==
    \/ ~IsIndex(prop) /\ objType = "Map"
    \/ IsIndex(prop) /\ objType \in {"List", "Text"}

\* variant: a segment that is not there is skipped, the walk goes on in the
\* same object
RECURSIVE PathWalkOn(_, _, _, _, _, _, _, _)
PathWalkOn(doc, T, obj, objType, prop, seg, rest, reads) ==
    IF rest = <<>>
    THEN PSome(HydrateProp(doc, obj, prop, T), Append(reads, Read(obj, prop, seg)))
    ELSE With(DocGet(doc, obj, prop), LAMBDA g :
             IF g.some /\ g.val.kind \in ObjKinds
             THEN PathWalkOn(doc, T, g.id, g.val.kind, Head(rest), seg + 1, Tail(rest),
                             Append(reads, Read(obj, prop, seg)))
             ELSE PathWalkOn(doc, T, obj, objType, Head(rest), seg + 1, Tail(rest),
                             Append(reads, Read(obj, prop, seg))))

\* the loop of hydrate_path: `prop` is segment number `seg` of the path,
\* `rest` the segments after it
RECURSIVE PathWalk(_, _, _, _, _, _, _, _)
PathWalk(doc, T, obj, objType, prop, seg, rest, reads) ==
    IF rest = <<>>
    THEN PSome(HydrateProp(doc, obj, prop, T), Append(reads, Read(obj, prop, seg)))
    ELSE IF ~PropFits(prop, objType) THEN PNone(reads)
    ELSE With(DocGet(doc, obj, prop), LAMBDA g :
         With(Append(reads, Read(obj, prop, seg)), LAMBDA rd :
             IF ~g.some THEN PNone(rd)
             ELSE IF g.val.kind \in ObjKinds
             THEN PathWalk(doc, T, g.id, g.val.kind, Head(rest), seg + 1, Tail(rest), rd)
             ELSE IF Tail(rest) # <<>> THEN PNone(rd)
             ELSE PathWalk(doc, T, obj, objType, Head(rest), seg + 1, Tail(rest), rd)))

\* hydrate_path, for a path that is not empty
HydratePath(doc, obj, path, T) ==
    With(DocObjectType(doc, obj), LAMBDA objType :
        IF objType = "None" THEN PNone(<<>>)
        ELSE PathWalk(doc, T, obj, objType, Head(path), 1, Tail(path), <<>>))

\* HydrateResultExt::strip_unexpected
StripUnexpected(r) ==
    IF r.err \in {"Unexpected", "Parse"} THEN [r EXCEPT !.err = "ok", !.some = FALSE]
    ELSE r

\* the hydrated key as the document value it is compared by
KeyValue(v) ==
    IF v.ty = "String" THEN ScStr(v.s) ELSE IF v.ty = "u64" THEN ScUint(v.n) ELSE v

\* reconcile.rs hydrate_key: the key `inner` inside the object at `outer`
HydrateKeyAt(doc, obj, outer, inner, T) ==
    With(StripUnexpected(HydratePath(doc, obj, <<outer, inner>>, T)), LAMBDA r :
        IF r.err # "ok" THEN [err |-> r.err, key |-> KeyNotFound]
        ELSE IF r.some THEN [err |-> "ok", key |-> Found(KeyValue(r.v))]
        ELSE [err |-> "ok", key |-> KeyNotFound])

\* Reconcile::hydrate_key of type T
RECURSIVE HydrateKey(_, _, _, _)
HydrateKey(doc, obj, prop, T) ==
    With(DocGet(doc, obj, prop), LAMBDA g :
        IF T.ty = "String"
        THEN [err |-> "ok", key |-> IF g.some /\ g.val.kind = "Str" THEN Found(g.val)
                                    ELSE KeyNotFound]
        ELSE IF T.ty = "u64"
        THEN [err |-> "ok", key |-> IF g.some /\ g.val.kind = "Uint" THEN Found(g.val)
                                    ELSE KeyNotFound]
        ELSE IF T.ty = "Option"
        THEN IF g.some /\ g.val.kind # "Null" THEN HydrateKey(doc, obj, prop, T.of)
             ELSE [err |-> "ok", key |-> KeyNotFound]
        ELSE IF T.ty = "Struct" /\ T.key \in {"id", "fresh"}
        THEN HydrateKeyAt(doc, obj, prop, Key("id"), T.fields[FieldIndex(T.fields, "id")].t)
        ELSE [err |-> "ok", key |-> NoKey])

(***************************************************************************)
(* Reconcilers: reconcile.rs RootReconciler and PropReconciler.            *)
(* A reconciler is [root, heads, obj, action, prop]: the root of the       *)
(* document, or property `prop` of `obj` to Put, or index prop.idx of      *)
(* `obj` to Insert at.  Every operation returns the document after it.     *)
(***************************************************************************)
RootReconciler(heads) ==
    [root |-> TRUE, heads |-> heads, obj |-> ROOT, action |-> "Put", prop |-> Key("")]

PropReconciler(heads, obj, action, prop) ==
    [root |-> FALSE, heads |-> heads, obj |-> obj, action |-> action, prop |-> prop]

\* PropAction::get_target
GetTarget(doc, rc) ==
    IF rc.action = "Put" THEN DocGet(doc, rc.obj, rc.prop)
    ELSE [some |-> FALSE, val |-> Null, id |-> ROOT]

\* PropAction::create_target_obj
CreateTargetObj(doc, rc, kind) ==
    IF rc.action = "Put" THEN DocPutObject(doc, rc.obj, rc.prop, kind)
    ELSE DocInsertObject(doc, rc.obj, rc.prop.idx, kind)

\* PropAction::create_primitive
CreatePrimitive(doc, rc, val) ==
    IF rc.action = "Put" THEN DocPut(doc, rc.obj, rc.prop, val)
    ELSE DocInsert(doc, rc.obj, rc.prop.idx, val)

\* variant: a scalar setter writes wherever the reconciler points
ReconcilerScalarAnywhere(doc, rc, val) == CreatePrimitive(doc, rc, val)

\* Reconciler::none, str, u64, ...: the scalar setters
ReconcilerScalar(doc, rc, val) ==
    IF rc.root THEN Fail(doc, "TopLevelNotMap") ELSE CreatePrimitive(doc, rc, val)

\* variant: a new map is made at the target whatever is there
ReconcilerMapNew(doc, rc) ==
    IF rc.root THEN [doc |-> doc, id |-> ROOT]
    ELSE [doc |-> CreateTargetObj(doc, rc, "Map"), id |-> NextId(doc)]

\* Reconciler::map: the map at the target is kept, anything else is replaced
ReconcilerMap(doc, rc) ==
    IF rc.root THEN [doc |-> doc, id |-> ROOT]
    ELSE With(GetTarget(doc, rc), LAMBDA g :
             IF g.some /\ g.val.kind = "Map" THEN [doc |-> doc, id |-> g.id]
             ELSE [doc |-> CreateTargetObj(doc, rc, "Map"), id |-> NextId(doc)])

\* Reconciler::seq
ReconcilerSeq(doc, rc) ==
    IF rc.root THEN [doc |-> Fail(doc, "TopLevelNotMap"), id |-> ROOT]
    ELSE With(GetTarget(doc, rc), LAMBDA g :
             IF g.some /\ g.val.kind = "List" THEN [doc |-> doc, id |-> g.id]
             ELSE [doc |-> CreateTargetObj(doc, rc, "List"), id |-> NextId(doc)])

\* Reconciler::text
ReconcilerText(doc, rc) ==
    IF rc.root THEN [doc |-> Fail(doc, "TopLevelNotMap"), id |-> ROOT]
    ELSE With(GetTarget(doc, rc), LAMBDA g :
             IF g.some /\ g.val.kind = "Text" THEN [doc |-> doc, id |-> g.id]
             ELSE [doc |-> CreateTargetObj(doc, rc, "Text"), id |-> NextId(doc)])

\* variant: the increment is written as the new value of the counter
AtCounterIncrementPut(doc, rc, by) ==
    IF rc.root THEN Fail(doc, "TopLevelNotMap")
    ELSE CreatePrimitive(doc, rc, ScCounter(by))

\* AtCounter::increment
AtCounterIncrement(doc, rc, by) ==
    IF rc.root THEN Fail(doc, "TopLevelNotMap")
    ELSE IF rc.action = "Put"
    THEN With(DocGet(doc, rc.obj, rc.prop), LAMBDA g :
             IF g.some /\ g.val.kind = "Counter" THEN DocIncrement(doc, rc.obj, rc.prop, by)
             ELSE DocPut(doc, rc.obj, rc.prop, ScCounter(by)))
    ELSE DocInsert(doc, rc.obj, rc.prop.idx, ScCounter(by))

\* AtCounter::set
AtCounterSet(doc, rc, value) ==
    IF rc.root THEN Fail(doc, "TopLevelNotMap")
    ELSE CreatePrimitive(doc, rc, ScCounter(value))

\* impl Reconcile for Counter
ReconcileCounter(doc, rc, c) ==
    IF c.state = "Fresh" THEN AtCounterSet(doc, rc, c.v)
    ELSE AtCounterIncrement(doc, rc, c.increment)

\* variant: the edits are dropped
ReplayNothing(doc, id, edits) == doc

\* the loop over the edits of a Rehydrated Text: InText::splice for each
RECURSIVE ReplayEdits(_, _, _)
ReplayEdits(doc, id, edits) ==
    IF edits = <<>> THEN doc
    ELSE ReplayEdits(DocSpliceText(doc, id, edits[1].pos, edits[1].delete, edits[1].insert),
                     id, Tail(edits))

\* variant: every Text is written as a Fresh one
ReconcileTextWhole(doc, rc, t) ==
    With(ReconcilerText(doc, rc), LAMBDA r : DocSpliceText(r.doc, r.id, 0, 0, t.value))

\* impl Reconcile for Text
ReconcileText(doc, rc, t) ==
    With(ReconcilerText(doc, rc), LAMBDA r :
        IF t.state = "Fresh" THEN DocSpliceText(r.doc, r.id, 0, 0, t.value)
        ELSE IF rc.heads # t.from_heads THEN Fail(r.doc, "StaleHeads")
        ELSE ReplayEdits(r.doc, r.id, t.edits))

(***************************************************************************)
(* The sequence diff: reconcile/seq.rs over similar::algorithms::lcs.      *)
(***************************************************************************)
\* variant: elements are matched by index, keys or not
ElemEqByIndex(newKey, i, oldKey, j) == i = j

\* impl PartialEq<OldElem> for NewElem; i and j are the indexes
ElemEq(newKey, i, oldKey, j) ==
    IF newKey.tag = "Found" /\ oldKey.tag = "Found" THEN newKey.k = oldKey.k
    ELSE IF newKey.tag = "Found" \/ oldKey.tag = "Found" THEN FALSE
    ELSE i = j

Max2(a, b) == IF a >= b THEN a ELSE b

Min2(a, b) == IF a <= b THEN a ELSE b

\* common_prefix_len of old[1..] and new[1..]
RECURSIVE CommonPrefixLen(_, _, _)
CommonPrefixLen(old, new, n) ==
    IF n < Min2(Len(old), Len(new)) /\ ElemEq(new[n + 1], n + 1, old[n + 1], n + 1)
    THEN CommonPrefixLen(old, new, n + 1) ELSE n

\* common_suffix_len of what is left after the first `pre` elements
RECURSIVE CommonSuffixLen(_, _, _, _)
CommonSuffixLen(old, new, pre, n) ==
    IF /\ n < Min2(Len(old), Len(new)) - pre
       /\ ElemEq(new[Len(new) - n], Len(new) - n, old[Len(old) - n], Len(old) - n)
    THEN CommonSuffixLen(old, new, pre, n + 1) ELSE n

Hk(tag, newIndex, len) == [tag |-> tag, new_index |-> newIndex, len |-> len]

\* variant: a diff that finds nothing in common
LcsDiffReplaceAll(old, new) ==
    (IF old # <<>> THEN <<Hk("delete", 0, Len(old))>> ELSE <<>>)
    \o (IF new # <<>> THEN <<Hk("insert", 0, Len(new))>> ELSE <<>>)

\* lcs::diff: the calls made on the hook, in order.  old and new are the keys
\* of the old and of the new elements; new_index is counted from 0.
LcsDiff(old, new) ==
    LET pre == CommonPrefixLen(old, new, 0)
        suf == CommonSuffixLen(old, new, pre, 0)
        ol  == Len(old) - pre - suf
        nl  == Len(new) - pre - suf
        eq(i, j) == ElemEq(new[pre + i + 1], pre + i + 1, old[pre + j + 1], pre + j + 1)
        table[i \in 0..nl, j \in 0..ol] ==
            IF i = nl \/ j = ol THEN 0
            ELSE IF eq(i, j) THEN table[i + 1, j + 1] + 1
            ELSE Max2(table[i + 1, j], table[i, j + 1])
        walk[ni \in 0..nl, oi \in 0..ol] ==
            IF ni < nl /\ oi < ol
            THEN IF eq(ni, oi) THEN <<Hk("equal", pre + ni, 1)>> \o walk[ni + 1, oi + 1]
                 ELSE IF table[ni, oi + 1] >= table[ni + 1, oi]
                 THEN <<Hk("delete", pre + ni, 1)>> \o walk[ni, oi + 1]
                 ELSE <<Hk("insert", pre + ni, 1)>> \o walk[ni + 1, oi]
            ELSE (IF oi < ol THEN <<Hk("delete", pre + ni, ol - oi)>> ELSE <<>>)
                 \o (IF ni < nl THEN <<Hk("insert", pre + ni, nl - ni)>> ELSE <<>>)
    IN
    IF new = <<>> THEN <<Hk("delete", 0, Len(old))>>
    ELSE IF old = <<>> THEN <<Hk("insert", 0, Len(new))>>
    ELSE IF pre = Len(old) /\ Len(old) = Len(new) THEN <<Hk("equal", 0, Len(old))>>
    ELSE (IF pre > 0 THEN <<Hk("equal", 0, pre)>> ELSE <<>>)
         \o walk[0, 0]
         \o (IF suf > 0 THEN <<Hk("equal", pre + nl, suf)>> ELSE <<>>)

\* similar::TextDiff::from_graphemes(old, new).iter_all_changes(): one
\* change per grapheme, in the order of the diff; `oi` is the old index
RECURSIVE ChangesOf(_, _, _, _, _)
ChangesOf(script, i, oi, old, new) ==
    IF i > Len(script) THEN <<>>
    ELSE With(script[i], LAMBDA h :
             (IF h.tag = "delete"
              THEN [k \in 1..h.len |-> [tag |-> "delete", value |-> old[oi + k]]]
              ELSE [k \in 1..h.len |-> [tag |-> h.tag, value |-> new[h.new_index + k]]])
             \o ChangesOf(script, i + 1, IF h.tag = "insert" THEN oi ELSE oi + h.len,
                          old, new))

IterAllChanges(old, new) ==
    ChangesOf(LcsDiff([i \in DOMAIN old |-> Found(ScStr(old[i]))],
                      [i \in DOMAIN new |-> Found(ScStr(new[i]))]), 1, 0, old, new)

\* Text::update, Rehydrated: the loop over the changes; idx and the lengths
\* are in bytes (change.value().len())
RECURSIVE UpdateLoop(_, _, _, _)
UpdateLoop(t, changes, i, idx) ==
    IF i > Len(changes) THEN t
    ELSE With(changes[i], LAMBDA c :
             IF c.tag = "delete"
             THEN UpdateLoop(TextSplice(t, idx, Utf8Len(c.value), <<>>), changes, i + 1, idx)
             ELSE IF c.tag = "insert"
             THEN UpdateLoop(TextSplice(t, idx, 0, <<c.value>>), changes, i + 1,
                             idx + Utf8Len(c.value))
             ELSE UpdateLoop(t, changes, i + 1, idx + Utf8Len(c.value)))

\* Text::update
TextUpdate(t, new_value) ==
    IF t.state = "Fresh" THEN [t EXCEPT !.value = new_value]
    ELSE UpdateLoop(t, IterAllChanges(t.value, new_value), 1, 0)

(***************************************************************************)
(* Reconcile::reconcile for every type.                                    *)
(***************************************************************************)
RECURSIVE Reconcile(_, _, _)
RECURSIVE PutFields(_, _, _, _)
RECURSIVE PutEntries(_, _, _, _, _)
RECURSIVE OldKeys(_, _, _, _)
RECURSIVE HookLoop(_, _, _, _, _, _, _)
RECURSIVE ApplyHooks(_, _, _, _, _, _)

\* variant: the nested reconciler is not given the heads of the call
InMapPutNoHeads(doc, heads, obj, name, value) ==
    Reconcile(doc, PropReconciler({}, obj, "Put", Key(name)), value)

\* InMap::put
InMapPut(doc, heads, obj, name, value) ==
    Reconcile(doc, PropReconciler(heads, obj, "Put", Key(name)), value)

\* InSeq::set
InSeqSet(doc, heads, obj, index, value) ==
    Reconcile(doc, PropReconciler(heads, obj, "Put", Index(index)), value)

\* InSeq::insert
InSeqInsert(doc, heads, obj, index, value) ==
    Reconcile(doc, PropReconciler(heads, obj, "Insert", Index(index)), value)

\* variant: a delete that leaves the element in the list
InSeqDeleteNothing(doc, obj, index) == doc

\* InSeq::delete
InSeqDelete(doc, obj, index) == DocDelete(doc, obj, Index(index))

\* InSeq::hydrate_item_key
HydrateItemKey(doc, obj, index, T) ==
    IF DocGet(doc, obj, Index(index)).some THEN HydrateKey(doc, obj, Index(index), T).key
    ELSE KeyNotFound

\* a struct: reconciler.map() and then m.put(name, field) for every field
PutFields(doc, heads, obj, fields) ==
    IF fields = <<>> THEN doc
    ELSE PutFields(InMapPut(doc, heads, obj, fields[1].name, fields[1].v),
                   heads, obj, Tail(fields))

\* MapReconciler::replace: first delete, then put
InMapReplace(doc, heads, obj, name, value) ==
    InMapPut(DocDelete(doc, obj, Key(name)), heads, obj, name, value)

\* variant: an entry is always put, whatever the keys
EntryKeysDifferNever(doc, obj, name, value, T) == [err |-> "ok", differ |-> FALSE]

\* the test of reconcile_map_impl on one entry: the key of the value and the
\* key hydrated from the entry (m.hydrate_entry_key::<V>) are both Found and
\* differ
EntryKeysDiffer(doc, obj, name, value, T) ==
    IF KeyOf(value).tag # "Found" THEN [err |-> "ok", differ |-> FALSE]
    ELSE With(HydrateKey(doc, obj, Key(name), T), LAMBDA existing :
             [err |-> existing.err,
              differ |-> existing.err = "ok" /\ existing.key.tag = "Found"
                         /\ existing.key.k # KeyOf(value).k])

\* the loop of reconcile_map_impl over the entries
PutEntries(doc, heads, obj, T, entries) ==
    IF entries = <<>> \/ doc.err # "ok" THEN doc
    ELSE With(EntryKeysDiffer(doc, obj, entries[1].name, entries[1].v, T), LAMBDA t :
             IF t.err # "ok" THEN Fail(doc, t.err)
             ELSE IF t.differ
             THEN PutEntries(InMapReplace(doc, heads, obj, entries[1].name, entries[1].v),
                             heads, obj, T, Tail(entries))
             ELSE PutEntries(InMapPut(doc, heads, obj, entries[1].name, entries[1].v),
                             heads, obj, T, Tail(entries)))

\* reconcile_map_impl
ReconcileMapImpl(doc, rc, v) ==
    With(ReconcilerMap(doc, rc), LAMBDA m :
        PutEntries(m.doc, rc.heads, m.id, v.of, v.entries))

\* the keys of the elements the list holds before the diff
OldKeys(doc, obj, T, i) ==
    IF i >= DocLength(doc, obj) THEN <<>>
    ELSE <<HydrateItemKey(doc, obj, i, T)>> \o OldKeys(doc, obj, T, i + 1)

\* what the Hook does to the list in one step: the call, the write cursor
\* and the length of the list when the call is made
Step(st, obj, call) ==
    Append(st.log, [call |-> call, idx |-> st.idx, len |-> DocLength(st.d, obj)])

\* variant: a delete moves the write cursor on as a set does
RECURSIVE HookLoopDeleteAdvances(_, _, _, _, _, _, _)
HookLoopDeleteAdvances(st, heads, obj, items, tag, newIndex, n) ==
    IF n = 0 \/ st.d.err # "ok" THEN st
    ELSE IF tag = "delete"
    THEN HookLoopDeleteAdvances([d |-> InSeqDelete(st.d, obj, st.idx), idx |-> st.idx + 1,
                                 log |-> Step(st, obj, "delete")],
                                heads, obj, items, tag, newIndex, n - 1)
    ELSE IF tag = "equal"
    THEN HookLoopDeleteAdvances([d |-> InSeqSet(st.d, heads, obj, st.idx, items[newIndex + 1]),
                                 idx |-> st.idx + 1, log |-> Step(st, obj, "set")],
                                heads, obj, items, tag, newIndex + 1, n - 1)
    ELSE HookLoopDeleteAdvances([d |-> InSeqInsert(st.d, heads, obj, st.idx, items[newIndex + 1]),
                                 idx |-> st.idx + 1, log |-> Step(st, obj, "insert")],
                                heads, obj, items, tag, newIndex + 1, n - 1)

\* one call on the Hook: equal, delete or insert of `n` elements from
\* items[newIndex] on, at the write cursor idx.  The result is [d, idx, log];
\* an error of the SeqReconciler ends the diff (`?`).
HookLoop(st, heads, obj, items, tag, newIndex, n) ==
    IF n = 0 \/ st.d.err # "ok" THEN st
    ELSE IF tag = "delete"
    THEN HookLoop([d |-> InSeqDelete(st.d, obj, st.idx), idx |-> st.idx,
                   log |-> Step(st, obj, "delete")],
                  heads, obj, items, tag, newIndex, n - 1)
    ELSE IF tag = "equal"
    THEN HookLoop([d |-> InSeqSet(st.d, heads, obj, st.idx, items[newIndex + 1]),
                   idx |-> st.idx + 1, log |-> Step(st, obj, "set")],
                  heads, obj, items, tag, newIndex + 1, n - 1)
    ELSE HookLoop([d |-> InSeqInsert(st.d, heads, obj, st.idx, items[newIndex + 1]),
                   idx |-> st.idx + 1, log |-> Step(st, obj, "insert")],
                  heads, obj, items, tag, newIndex + 1, n - 1)

ApplyHooks(st, heads, obj, items, script, i) ==
    IF i > Len(script) THEN st
    ELSE ApplyHooks(HookLoop(st, heads, obj, items, script[i].tag,
                             script[i].new_index, script[i].len),
                    heads, obj, items, script, i + 1)

\* reconcile_seq, with the Hook as it is when lcs::diff returns
SeqDiff(doc, rc, v) ==
    With(ReconcilerSeq(doc, rc), LAMBDA s :
        IF s.doc.err # "ok" THEN [d |-> s.doc, idx |-> 0, log |-> <<>>]
        ELSE ApplyHooks([d |-> s.doc, idx |-> 0, log |-> <<>>], rc.heads, s.id, v.items,
                        LcsDiff(OldKeys(s.doc, s.id, v.of, 0),
                                [i \in DOMAIN v.items |-> KeyOf(v.items[i])]), 1))

\* reconcile_seq
ReconcileSeq(doc, rc, v) == SeqDiff(doc, rc, v).d

\* tuple_impl!: for ii in (arity + 1)..old_len { seq.delete(ii)?; }
RECURSIVE TupleDeletes(_, _, _, _)
TupleDeletes(doc, obj, ii, old_len) ==
    IF ii >= old_len \/ doc.err # "ok" THEN doc
    ELSE TupleDeletes(InSeqDelete(doc, obj, ii), obj, ii + 1, old_len)

\* tuple_impl!: field idx is set when idx < old_len, inserted otherwise
RECURSIVE TupleFields(_, _, _, _, _, _)
TupleFields(doc, heads, obj, items, idx, old_len) ==
    IF idx >= Len(items) \/ doc.err # "ok" THEN doc
    ELSE TupleFields(IF idx < old_len THEN InSeqSet(doc, heads, obj, idx, items[idx + 1])
                     ELSE InSeqInsert(doc, heads, obj, idx, items[idx + 1]),
                     heads, obj, items, idx + 1, old_len)

\* tuple_impl!: impl Reconcile for (N0, N1, ...)
ReconcileTuple(doc, rc, v) ==
    With(ReconcilerSeq(doc, rc), LAMBDA s :
        IF s.doc.err # "ok" THEN s.doc
        ELSE With(DocLength(s.doc, s.id), LAMBDA old_len :
                 TupleFields(TupleDeletes(s.doc, s.id, Len(v.items), old_len),
                             rc.heads, s.id, v.items, 0, old_len)))

Reconcile(doc, rc, v) ==
    IF v.ty = "String" THEN ReconcilerScalar(doc, rc, ScStr(v.s))
    ELSE IF v.ty = "u64" THEN ReconcilerScalar(doc, rc, ScUint(v.n))
    ELSE IF v.ty = "Option"
    THEN IF v.some THEN Reconcile(doc, rc, v.inner) ELSE ReconcilerScalar(doc, rc, Null)
    ELSE IF v.ty = "Text" THEN ReconcileText(doc, rc, v)
    ELSE IF v.ty = "Counter" THEN ReconcileCounter(doc, rc, v)
    ELSE IF v.ty = "Struct"
    THEN With(ReconcilerMap(doc, rc), LAMBDA m : PutFields(m.doc, rc.heads, m.id, v.fields))
    ELSE IF v.ty = "Vec" THEN ReconcileSeq(doc, rc, v)
    ELSE IF v.ty = "Map" THEN ReconcileMapImpl(doc, rc, v)
    ELSE IF v.ty = "Tuple" THEN ReconcileTuple(doc, rc, v)
    ELSE doc

\* reconcile: at the root of the document
ReconcileRoot(doc, value) == Reconcile(doc, RootReconciler(DocGetHeads(doc)), value)

\* reconcile_prop
ReconcileProp(doc, obj, prop, value) ==
    Reconcile(doc, PropReconciler(DocGetHeads(doc), obj, "Put", prop), value)

\* reconcile_insert
ReconcileInsert(doc, obj, idx, value) ==
    Reconcile(doc, PropReconciler(DocGetHeads(doc), obj, "Insert", Index(idx)), value)

(***************************************************************************)
(* The program around the library.  A replica is a document handle and the *)
(* value the program holds for the slot `x` of the root map.               *)
(*   docs    the AutoCommit of each replica                                *)
(*   held    the value each replica holds (VUnit: none yet)                *)
(*   last    the last operation on replica 1: what it was, the value it    *)
(*           was given, the document before it, its error, and whether it  *)
(*           repeated the reconcile just before it                         *)
(*   count   how many operations of each sort have run                     *)
(*   base    the value both replicas start from, once forked               *)
(*   edits   what each replica changed in its copy since the fork          *)
(*   pc      where each replica stands                                     *)
(*   found   the result of the last hydrate_path, with its arguments       *)
(***************************************************************************)
VARIABLES docs, held, last, count, base, edits, pc, found

vars == <<docs, held, last, count, base, edits, pc, found>>

Replicas == {1, 2}

\* the actor of the first replica; a fork takes an actor below or above it
FirstActor == 2

ForkActors == {1, 3}

Slot == Key("x")

\* a call returned: the error is the caller's, the writes stay in the document
Returned(doc) == [doc EXCEPT !.err = "ok"]

NoLast ==
    [op |-> "none", val |-> VUnit, before |-> NewDoc(FirstActor), err |-> "ok",
     again |-> FALSE]

NoFound == [path |-> <<>>, T |-> TString, res |-> PNone(<<>>)]

\* seq.rs tests: struct Person, keyed by `id`
Person(id, name) == VStruct("id", <<F("name", VString(name)), F("id", VU64(id))>>)

\* lib.rs: struct Product without a key
Product(id, name) == VStruct("none", <<F("id", VU64(id)), F("name", VString(name))>>)

\* reconcile_key_matching_tests.rs: struct FreshItem, whose key() is always
\* KeyNotFound while hydrate_key reads `id`
FreshItem(id, name) == VStruct("fresh", <<F("name", VString(name)), F("id", VU64(id))>>)

\* reconcile_key_matching_tests.rs: struct MapContainer<T> { item: T }
MapContainer(item) == VStruct("none", <<F("item", item)>>)

TPerson == TypeOf(Person(1, "a"))

TProduct == TypeOf(Product(1, "a"))

InitCommon ==
    /\ docs = [r \in Replicas |-> NewDoc(IF r = 1 THEN FirstActor ELSE 3)]
    /\ last = NoLast
    /\ count = [fresh |-> 0, held |-> 0]
    /\ edits = [r \in Replicas |-> <<>>]
    /\ found = NoFound

(***************************************************************************)
(* Spec: one replica reconciles values into the slot, hydrates the slot,   *)
(* edits what it hydrated and reconciles it again; a fork commits the open *)
(* transaction, which moves the heads.                                     *)
(***************************************************************************)
FreshValues ==
    {VString("a"), VNone(TString),
     TextWithValue(<<"a">>), CounterWithValue(1),
     Person(1, "a"), Person(1, "b"),
     VVec(TPerson, <<Person(1, "a"), Person(2, "a")>>),
     VVec(TPerson, <<Person(2, "b")>>),
     Person(2, "b"), FreshItem(1, "c"),
     MapContainer(Person(1, "a")), MapContainer(Person(2, "b")),
     MapContainer(FreshItem(1, "c")),
     VVec(TString, <<VString("a"), VString("b"), VString("c"), VString("d")>>),
     VTuple(<<VString("y"), VString("z")>>)}

SpliceInserts == {<<>>, <<"z">>}

Increments == {1, 2}

Init ==
    /\ InitCommon
    /\ held = [r \in Replicas |-> VUnit]
    /\ base = VUnit
    /\ pc = [r \in Replicas |-> "slot"]

\* reconcile_prop(doc, ROOT, "x", value) on replica 1
ReconcileSlot(v) ==
    \E d \in {ReconcileProp(docs[1], ROOT, Slot, v)} :
        /\ docs' = [docs EXCEPT ![1] = Returned(d)]
        /\ last' = [op |-> "reconcile", val |-> v, before |-> docs[1], err |-> d.err,
                    again |-> last.op = "reconcile" /\ last.err = "ok" /\ last.val = v]

\* the program builds a value and reconciles it
ReconcileFresh(v) ==
    /\ count.fresh < MaxFresh
    /\ ReconcileSlot(v)
    /\ count' = [count EXCEPT !.fresh = @ + 1]
    /\ UNCHANGED <<held, base, edits, pc, found>>

\* the program reconciles the value it holds
ReconcileHeld ==
    /\ count.held < MaxHeld
    /\ held[1] # VUnit
    /\ ReconcileSlot(held[1])
    /\ count' = [count EXCEPT !.held = @ + 1]
    /\ UNCHANGED <<held, base, edits, pc, found>>

\* hydrate_prop(doc, ROOT, "x") as the type of the value just reconciled
HydrateHeld ==
    /\ count.held < MaxHeld
    /\ last.op = "reconcile"
    /\ \E r \in {HydrateProp(docs[1], ROOT, Slot, TypeOf(last.val))} :
       /\ held' = [held EXCEPT ![1] = IF r.err = "ok" THEN r.v ELSE @]
       /\ last' = [last EXCEPT !.op = IF last.err = "ok" THEN "hydrate" ELSE "hydrate_after_error",
                               !.err = r.err, !.again = FALSE]
    /\ count' = [count EXCEPT !.held = @ + 1]
    /\ UNCHANGED <<docs, base, edits, pc, found>>

\* Text::splice on the held text
SpliceHeld(pos, del, ins) ==
    /\ count.held < MaxHeld
    /\ held[1].ty = "Text"
    /\ IsCharBoundary(held[1].value, pos)
    /\ IsCharBoundary(held[1].value, pos + del)
    /\ del > 0 \/ ins # <<>>
    /\ held' = [held EXCEPT ![1] = TextSplice(@, pos, del, ins)]
    /\ count' = [count EXCEPT !.held = @ + 1]
    /\ last' = [last EXCEPT !.op = "edit", !.again = FALSE]
    /\ UNCHANGED <<docs, base, edits, pc, found>>

\* Counter::increment on the held counter
IncrementHeld(by) ==
    /\ count.held < MaxHeld
    /\ held[1].ty = "Counter"
    /\ held' = [held EXCEPT ![1] = CounterIncrement(@, by)]
    /\ count' = [count EXCEPT !.held = @ + 1]
    /\ last' = [last EXCEPT !.op = "edit", !.again = FALSE]
    /\ UNCHANGED <<docs, base, edits, pc, found>>

\* doc.fork(): commits the open transaction of replica 1, copies it to
\* replica 2
ForkSlot(actor) ==
    /\ count.held < MaxHeld
    /\ docs[1].dirty
    /\ docs' = [docs EXCEPT ![1] = Commit(@), ![2] = DocFork(docs[1], actor)]
    /\ held' = [held EXCEPT ![2] = held[1]]
    /\ last' = [last EXCEPT !.op = "fork", !.again = FALSE]
    /\ count' = [count EXCEPT !.held = @ + 1]
    /\ UNCHANGED <<base, edits, pc, found>>

Next ==
    \/ \E v \in FreshValues : ReconcileFresh(v)
    \/ ReconcileHeld
    \/ HydrateHeld
    \/ \E pos \in 0..2, del \in 0..1, ins \in SpliceInserts : SpliceHeld(pos, del, ins)
    \/ \E by \in Increments : IncrementHeld(by)
    \/ \E actor \in ForkActors : ForkSlot(actor)

Spec == Init /\ [][Next]_vars

(***************************************************************************)
(* SpecMerge: replica 1 stores a value, forks replica 2; each replica      *)
(* hydrates the value, changes its copy, reconciles it; the replicas merge *)
(* each other.  A struct is stored as the whole document, anything else in *)
(* the slot.                                                               *)
(***************************************************************************)
MaxEdits == 1

\* lib.rs: struct Address, struct Contact
Address(line) == VStruct("none", <<F("line_one", VString(line))>>)

Contact(name, line) ==
    VStruct("none", <<F("name", VString(name)), F("address", Address(line))>>)

\* map.rs tests::reconcile_map_with_key: a HashMap with one keyed user
Users(id, name) == VMap(TPerson, <<F("user", Person(id, name))>>)

\* a HashMap with another entry
Admins(id, name) == VMap(TPerson, <<F("admin", Person(id, name))>>)

BaseValues ==
    {CounterWithValue(1),
     TextWithValue(<<"a", "b">>),
     VVec(TPerson, <<Person(1, "a"), Person(2, "b")>>),
     VVec(TProduct, <<Product(1, "a"), Product(2, "b")>>),
     Contact("a", "b"),
     Person(1, "a"),
     Users(1, "a"),
     VSome(TText, TextWithValue(<<"a", "b">>))}

AtRoot(v) == (v.ty = "Struct" /\ v.key = "none") \/ v.ty = "Map"

\* reconcile(doc, value) or reconcile_prop(doc, ROOT, "x", value)
Store(doc, v) ==
    IF AtRoot(v) THEN ReconcileRoot(doc, v) ELSE ReconcileProp(doc, ROOT, Slot, v)

\* hydrate(doc) or hydrate_prop(doc, ROOT, "x")
Load(doc, T) ==
    IF AtRoot(T) THEN HydrateRoot(doc, T) ELSE HydrateProp(doc, ROOT, Slot, T)

\* what writer r writes: its own letter
Letter(r) == IF r = 1 THEN "y" ELSE "z"

\* the element writer r adds to a list
NewElem(T, r) == IF T = TPerson THEN Person(2 + r, Letter(r)) ELSE Product(2 + r, Letter(r))

SetField(v, name, x) == [v EXCEPT !.fields[FieldIndex(v.fields, name)].v = x]

RemoveAt(items, i) == SubSeq(items, 1, i) \o SubSeq(items, i + 2, Len(items))

\* the changes a writer can make to the value it holds
EditsOf(v, r) ==
    IF v.ty = "Counter" THEN {[kind |-> "inc", n |-> by, m |-> 0] : by \in Increments}
    ELSE IF v.ty = "Text"
    THEN {e \in [kind : {"splice"}, n : 0..ByteLen(v.value), m : 0..1, ins : {<<>>, <<Letter(r)>>}] :
            /\ IsCharBoundary(v.value, e.n) /\ IsCharBoundary(v.value, e.n + e.m)
            /\ (e.m > 0 \/ e.ins # <<>>)}
    ELSE IF v.ty = "Vec"
    THEN {[kind |-> "insert_front", n |-> 0, m |-> 0]}
         \cup {[kind |-> k, n |-> i, m |-> 0] : k \in {"remove", "rename"}, i \in 0..(Len(v.items) - 1)}
    ELSE IF v.ty = "Map"
    THEN {[kind |-> k, n |-> 0, m |-> 0] : k \in {"replace_entry", "rename_entry"}}
    ELSE IF v.ty = "Option" THEN {}
    ELSE {[kind |-> k, n |-> 0, m |-> 0] :
             k \in IF AtRoot(v) THEN {"set_name", "set_line"} ELSE {"set_name"}}

ApplyEdit(v, e, r) ==
    IF e.kind = "inc" THEN CounterIncrement(v, e.n)
    ELSE IF e.kind = "splice" THEN TextSplice(v, e.n, e.m, e.ins)
    ELSE IF e.kind = "insert_front" THEN [v EXCEPT !.items = <<NewElem(v.of, r)>> \o @]
    ELSE IF e.kind = "remove" THEN [v EXCEPT !.items = RemoveAt(@, e.n)]
    ELSE IF e.kind = "rename"
    THEN [v EXCEPT !.items[e.n + 1] = SetField(@, "name", VString(Letter(r)))]
    ELSE IF e.kind = "replace_entry"
    THEN [v EXCEPT !.entries[1].v = Person(2 + r, Letter(r))]
    ELSE IF e.kind = "rename_entry"
    THEN [v EXCEPT !.entries[1].v = SetField(@, "name", VString(Letter(r)))]
    ELSE IF e.kind = "set_name" THEN SetField(v, "name", VString(Letter(r)))
    ELSE SetField(v, "address", Address(Letter(r)))

InitMerge ==
    /\ InitCommon
    /\ \E v \in BaseValues : held = [r \in Replicas |-> IF r = 1 THEN v ELSE VUnit]
    /\ base = VUnit
    /\ pc = [r \in Replicas |-> IF r = 1 THEN "new" ELSE "none"]

\* replica 1 reconciles the first value into its new document
StoreBase ==
    /\ pc[1] = "new"
    /\ docs' = [docs EXCEPT ![1] = Returned(Store(@, held[1]))]
    /\ base' = held[1]
    /\ pc' = [pc EXCEPT ![1] = "stored"]
    /\ UNCHANGED <<held, last, count, edits, found>>

\* doc2 = doc1.fork().with_actor(actor)
ForkMerge(actor) ==
    /\ pc[1] = "stored"
    /\ docs' = [docs EXCEPT ![1] = Commit(@), ![2] = DocFork(docs[1], actor)]
    /\ pc' = [r \in Replicas |-> "forked"]
    /\ UNCHANGED <<held, last, count, base, edits, found>>

\* a writer hydrates the value from its document
HydrateMerge(r) ==
    /\ pc[r] = "forked"
    /\ \E h \in {Load(docs[r], TypeOf(base))} :
       /\ h.err = "ok"
       /\ held' = [held EXCEPT ![r] = h.v]
    /\ pc' = [pc EXCEPT ![r] = "hydrated"]
    /\ UNCHANGED <<docs, last, count, base, edits, found>>

\* a writer changes the value it holds
EditMerge(r, e) ==
    /\ pc[r] = "hydrated"
    /\ Len(edits[r]) < MaxEdits
    /\ e \in EditsOf(held[r], r)
    /\ held' = [held EXCEPT ![r] = ApplyEdit(@, e, r)]
    /\ edits' = [edits EXCEPT ![r] = Append(@, e)]
    /\ UNCHANGED <<docs, last, count, base, pc, found>>

\* a writer reconciles the value it holds into its document
StoreMerge(r) ==
    /\ pc[r] = "hydrated"
    /\ \E d \in {Store(docs[r], held[r])} :
       /\ docs' = [docs EXCEPT ![r] = Returned(d)]
       /\ pc' = [pc EXCEPT ![r] = IF d.err = "ok" THEN "reconciled" ELSE "failed"]
    /\ UNCHANGED <<held, last, count, base, edits, found>>

\* docs[r].merge(&mut docs[s])
MergeDocs(r, s) ==
    /\ r # s
    /\ pc[r] = "reconciled"
    /\ pc[s] \in {"reconciled", "merged"}
    /\ docs' = [docs EXCEPT ![r] = DocMerge(docs[r], docs[s]), ![s] = Commit(docs[s])]
    /\ pc' = [pc EXCEPT ![r] = "merged"]
    /\ UNCHANGED <<held, last, count, base, edits, found>>

NextMerge ==
    \/ StoreBase
    \/ \E actor \in ForkActors : ForkMerge(actor)
    \/ \E r \in Replicas : HydrateMerge(r)
    \/ \E r \in Replicas : \E e \in EditsOf(held[r], r) : EditMerge(r, e)
    \/ \E r \in Replicas : StoreMerge(r)
    \/ \E r, s \in Replicas : MergeDocs(r, s)

SpecMerge == InitMerge /\ [][NextMerge]_vars

(***************************************************************************)
(* SpecPath: a program stores a nested value as the whole document and     *)
(* looks paths up in it with hydrate_path, from the root.                  *)
(***************************************************************************)
MaxPath == 3

\* how many times the program increments a counter it holds
MaxIncrements == 3

Leaf(c) == VStruct("none", <<F("c", VString(c))>>)

PathValues ==
    {VStruct("none", <<F("s", VString("a"))>>),
     VStruct("none", <<F("a", VStruct("none", <<F("b", VString("a"))>>))>>),
     VStruct("none", <<F("a", VStruct("none", <<F("b", Leaf("a"))>>)), F("s", VString("a"))>>),
     VStruct("none", <<F("a", VStruct("none", <<F("l", VVec(TString, <<VString("a"), VString("b")>>))>>))>>),
     VStruct("none", <<F("l", VVec(TypeOf(Leaf("a")), <<Leaf("a")>>))>>)}

PathProps == {Key("a"), Key("b"), Key("c"), Key("l"), Key("s"), Index(0), Index(1)}

Paths == UNION {[1..n -> PathProps] : n \in 1..MaxPath}

PathTypes == {TString, TypeOf(Leaf("a"))}

InitPath ==
    /\ InitCommon
    /\ held = [r \in Replicas |-> VUnit]
    /\ base = VUnit
    /\ pc = [r \in Replicas |-> IF r = 1 THEN "empty" ELSE "none"]

\* reconcile(doc, value)
StorePath(v) ==
    /\ pc[1] = "empty"
    /\ docs' = [docs EXCEPT ![1] = Returned(ReconcileRoot(@, v))]
    /\ base' = v
    /\ pc' = [pc EXCEPT ![1] = "stored"]
    /\ UNCHANGED <<held, last, count, edits, found>>

\* hydrate_path(doc, ROOT, path)
LookUp(path, T) ==
    /\ pc[1] = "stored"
    /\ found' = [path |-> path, T |-> T, res |-> HydratePath(docs[1], ROOT, path, T)]
    /\ pc' = [pc EXCEPT ![1] = "looked"]
    /\ UNCHANGED <<docs, held, last, count, base, edits>>

\* hydrate_key(doc, ROOT, outer, inner)
LookUpKey(outer, inner, T) ==
    /\ pc[1] = "stored"
    /\ found' = [path |-> <<outer, inner>>, T |-> T,
                 res |-> HydratePath(docs[1], ROOT, <<outer, inner>>, T),
                 key |-> HydrateKeyAt(docs[1], ROOT, outer, inner, T)]
    /\ pc' = [pc EXCEPT ![1] = "keyed"]
    /\ UNCHANGED <<docs, held, last, count, base, edits>>

NextPath ==
    \/ \E v \in PathValues : StorePath(v)
    \/ \E path \in Paths, T \in PathTypes : LookUp(path, T)
    \/ \E outer, inner \in PathProps, T \in PathTypes : LookUpKey(outer, inner, T)

SpecPath == InitPath /\ [][NextPath]_vars

(***************************************************************************)
(* SpecRoot: the program reconciles values of every shape as the whole     *)
(* document, one after the other.                                          *)
(***************************************************************************)
RootValues ==
    {VString("a"), VU64(1), VNone(TString), VNone(TPerson),
     VVec(TString, <<>>), VVec(TPerson, <<Person(1, "a")>>),
     TextWithValue(<<"a">>), TextRehydrated(<<"a">>, <<>>, {}),
     CounterWithValue(1), CounterRehydrated(1, 1),
     Person(1, "a"), Person(2, "b"), Product(2, "b"),
     MapContainer(Person(2, "b")), MapContainer(FreshItem(1, "c")),
     Users(1, "a"), Admins(2, "b"), VSome(TPerson, Person(1, "b"))}

InitRoot ==
    /\ InitCommon
    /\ held = [r \in Replicas |-> VUnit]
    /\ base = VUnit
    /\ pc = [r \in Replicas |-> IF r = 1 THEN "root" ELSE "none"]

\* reconcile(doc, value)
ReconcileAtRoot(v) ==
    /\ count.fresh < MaxFresh
    /\ \E d \in {ReconcileRoot(docs[1], v)} :
        /\ docs' = [docs EXCEPT ![1] = Returned(d)]
        /\ last' = [op |-> "reconcile_root", val |-> v, before |-> docs[1],
                    err |-> d.err, again |-> FALSE]
    /\ count' = [count EXCEPT !.fresh = @ + 1]
    /\ UNCHANGED <<held, base, edits, pc, found>>

NextRoot == \E v \in RootValues : ReconcileAtRoot(v)

SpecRoot == InitRoot /\ [][NextRoot]_vars

(***************************************************************************)
(* SpecCounter: the program makes a counter, or hydrates one from a        *)
(* document counter, and increments it; `base` is the counter it started   *)
(* with and edits[1] the deltas since.  The values stay far inside i64, so *)
(* no addition overflows.                                                  *)
(***************************************************************************)
CounterStarts == {-1, 0, 2}

CounterDeltas == {-2, 1, 3}

InitCounter ==
    /\ InitCommon
    /\ held = [r \in Replicas |-> VUnit]
    /\ base = VUnit
    /\ pc = [r \in Replicas |-> IF r = 1 THEN "new" ELSE "none"]

StartCounter(c) ==
    /\ pc[1] = "new"
    /\ held' = [held EXCEPT ![1] = c]
    /\ base' = c
    /\ pc' = [pc EXCEPT ![1] = "counting"]
    /\ UNCHANGED <<docs, last, count, edits, found>>

\* Counter::with_value(v)
WithValue(v) == StartCounter(CounterWithValue(v))

\* Counter::hydrate_counter(c)
HydrateCounterFrom(c) == StartCounter(HydrateCounter(c).v)

\* counter.increment(by)
IncrementCounter(by) ==
    /\ pc[1] = "counting"
    /\ Len(edits[1]) < MaxIncrements
    /\ held' = [held EXCEPT ![1] = CounterIncrement(@, by)]
    /\ edits' = [edits EXCEPT ![1] = Append(@, by)]
    /\ UNCHANGED <<docs, last, count, base, pc, found>>

NextCounter ==
    \/ \E v \in CounterStarts : WithValue(v)
    \/ \E c \in CounterStarts : HydrateCounterFrom(c)
    \/ \E by \in CounterDeltas : IncrementCounter(by)

SpecCounter == InitCounter /\ [][NextCounter]_vars

(***************************************************************************)
(* SpecUpdate: the program stores a Text in the slot, keeps it or hydrates *)
(* it back, gives it a new string with Text::update and reconciles it.     *)
(* `base` is the Text before the update, last.val the new string.          *)
(***************************************************************************)
TextStrings ==
    {<<>>, <<"a">>, <<"a", "b">>, <<"b", "a">>, <<"a", "c", "b">>,
     <<EAcute, "a", "b">>, <<EAcute, "b">>}

InitUpdate ==
    /\ InitCommon
    /\ held = [r \in Replicas |-> VUnit]
    /\ base = VUnit
    /\ pc = [r \in Replicas |-> IF r = 1 THEN "new" ELSE "none"]

\* reconcile_prop(doc, ROOT, "x", &Text::with_value(s))
StoreText(str) ==
    /\ pc[1] = "new"
    /\ held' = [held EXCEPT ![1] = TextWithValue(str)]
    /\ docs' = [docs EXCEPT ![1] = Returned(ReconcileProp(@, ROOT, Slot, TextWithValue(str)))]
    /\ pc' = [pc EXCEPT ![1] = "stored"]
    /\ UNCHANGED <<last, count, base, edits, found>>

\* hydrate_prop(doc, ROOT, "x"): the program now holds a Rehydrated Text
HydrateStored ==
    /\ pc[1] = "stored"
    /\ held' = [held EXCEPT ![1] = HydrateProp(docs[1], ROOT, Slot, TText).v]
    /\ pc' = [pc EXCEPT ![1] = "hydrated"]
    /\ UNCHANGED <<docs, last, count, base, edits, found>>

\* text.update(s)
UpdateText(str) ==
    /\ pc[1] \in {"stored", "hydrated"}
    /\ base' = held[1]
    /\ held' = [held EXCEPT ![1] = TextUpdate(@, str)]
    /\ last' = [op |-> "update", val |-> TextWithValue(str), before |-> docs[1],
                err |-> "ok", again |-> FALSE]
    /\ pc' = [pc EXCEPT ![1] = "updated"]
    /\ UNCHANGED <<docs, count, edits, found>>

\* the splices a program makes before it reconciles
MaxSplices == 2

SpliceDeletes == {-2, -1, 0, 1}

\* text.splice(pos, del, ins) on the Rehydrated Text: pos and the start and
\* the end of what is deleted are within the string, on char boundaries
SpliceText(pos, del, ins) ==
    /\ pc[1] \in {"hydrated", "spliced"}
    /\ Len(held[1].edits) < MaxSplices
    /\ pos + del >= 0
    /\ IsCharBoundary(held[1].value, pos)
    /\ IsCharBoundary(held[1].value, pos + del)
    /\ del # 0 \/ ins # <<>>
    /\ base' = IF pc[1] = "hydrated" THEN held[1] ELSE base
    /\ held' = [held EXCEPT ![1] = TextSplice(@, pos, del, ins)]
    /\ last' = [op |-> "splice", val |-> held[1], before |-> docs[1],
                err |-> "ok", again |-> FALSE]
    /\ pc' = [pc EXCEPT ![1] = "spliced"]
    /\ UNCHANGED <<docs, count, edits, found>>

\* reconcile_prop(doc, ROOT, "x", &text) of the updated Rehydrated Text
ReconcileUpdated ==
    /\ pc[1] \in {"updated", "spliced"}
    /\ held[1].state = "Rehydrated"
    /\ \E d \in {ReconcileProp(docs[1], ROOT, Slot, held[1])} :
        /\ docs' = [docs EXCEPT ![1] = Returned(d)]
        /\ pc' = [pc EXCEPT ![1] = IF d.err = "ok" THEN "reconciled" ELSE "failed"]
    /\ UNCHANGED <<held, last, count, base, edits, found>>

NextUpdate ==
    \/ \E str \in TextStrings : StoreText(str)
    \/ HydrateStored
    \/ \E str \in TextStrings : UpdateText(str)
    \/ \E pos \in 0..4, del \in SpliceDeletes, ins \in {<<>>, <<"z">>} : SpliceText(pos, del, ins)
    \/ ReconcileUpdated

SpecUpdate == InitUpdate /\ [][NextUpdate]_vars

(***************************************************************************)
(* SpecSeq: a program reconciles one list after another into the slot `x`  *)
(* of the root map.  `last` also holds the Hook of the diff that was run:  *)
(* its steps and the write cursor it ended with.                           *)
(***************************************************************************)
TFreshItem == TypeOf(FreshItem(1, "c"))

SeqValues ==
    {VVec(TPerson, <<>>),
     VVec(TPerson, <<Person(1, "a")>>),
     VVec(TPerson, <<Person(1, "a"), Person(2, "b")>>),
     VVec(TPerson, <<Person(2, "b"), Person(1, "c")>>),
     VVec(TPerson, <<Person(3, "c"), Person(1, "a"), Person(2, "a")>>),
     VVec(TPerson, <<Person(1, "a"), Person(1, "b")>>),
     VVec(TProduct, <<Product(1, "a")>>),
     VVec(TProduct, <<Product(2, "b"), Product(1, "a"), Product(3, "c")>>),
     VVec(TProduct, <<Product(1, "a"), Product(1, "a")>>),
     VVec(TString, <<VString("a"), VString("b"), VString("c")>>),
     VVec(TString, <<VString("b"), VString("c")>>),
     VVec(TString, <<VString("c"), VString("a")>>),
     VVec(TFreshItem, <<FreshItem(1, "c")>>),
     VVec(TFreshItem, <<FreshItem(2, "a"), FreshItem(1, "b")>>)}

InitSeq ==
    /\ docs = [r \in Replicas |-> NewDoc(IF r = 1 THEN FirstActor ELSE 3)]
    /\ last = NoLast @@ [cursor |-> 0, steps |-> <<>>]
    /\ count = [fresh |-> 0, held |-> 0]
    /\ edits = [r \in Replicas |-> <<>>]
    /\ found = NoFound
    /\ held = [r \in Replicas |-> VUnit]
    /\ base = VUnit
    /\ pc = [r \in Replicas |-> IF r = 1 THEN "seq" ELSE "none"]

\* reconcile_prop(doc, ROOT, "x", &items)
StoreSeq(v) ==
    /\ count.fresh < MaxFresh
    /\ \E d \in {ReconcileProp(docs[1], ROOT, Slot, v)} :
       \E hook \in {SeqDiff(docs[1], PropReconciler(DocGetHeads(docs[1]), ROOT, "Put", Slot), v)} :
        /\ docs' = [docs EXCEPT ![1] = Returned(d)]
        /\ last' = [op |-> "reconcile_seq", val |-> v, before |-> docs[1],
                    err |-> d.err, again |-> FALSE,
                    cursor |-> hook.idx, steps |-> hook.log]
    /\ count' = [count EXCEPT !.fresh = @ + 1]
    /\ UNCHANGED <<held, base, edits, pc, found>>

NextSeq == \E v \in SeqValues : StoreSeq(v)

SpecSeq == InitSeq /\ [][NextSeq]_vars

(***************************************************************************)
(* SpecHeads: a program keeps a struct with two Text fields as the whole   *)
(* document.  It hydrates the struct, edits it and reconciles it, while    *)
(* another part of the program writes to the document and commits, which   *)
(* moves the heads.  After a StaleHeads failure it hydrates again.         *)
(* docs[2] is the document as it was at the last hydrate.                  *)
(***************************************************************************)
\* text.rs: struct Quote, with an author and a second Text
Quote(author, text, note) ==
    VStruct("none", <<F("author", VString(author)), F("text", TextWithValue(text)),
                      F("note", TextWithValue(note))>>)

QuoteValues == {Quote("a", <<"a", "b">>, <<"c">>), Quote("b", <<>>, <<"a", "c">>)}

QuoteEdits == {"author", "text", "note"}

EditRank(kind) == IF kind = "author" THEN 1 ELSE IF kind = "text" THEN 2 ELSE 3

FieldValue(v, name) == v.fields[FieldIndex(v.fields, name)].v

\* the program changes the author, or splices one of the texts
EditQuote(v, kind) ==
    IF kind = "author" THEN SetField(v, "author", VString("z"))
    ELSE IF kind = "text"
    THEN SetField(v, "text", TextSplice(FieldValue(v, "text"), 0, 0, <<"y">>))
    ELSE SetField(v, "note", TextSplice(FieldValue(v, "note"), 1, -1, <<"z">>))

InitHeads ==
    /\ InitCommon
    /\ held = [r \in Replicas |-> VUnit]
    /\ base = VUnit
    /\ pc = [r \in Replicas |-> IF r = 1 THEN "new" ELSE "none"]

\* reconcile(doc, &quote)
StoreQuote(v) ==
    /\ pc[1] = "new"
    /\ docs' = [docs EXCEPT ![1] = Returned(ReconcileRoot(@, v))]
    /\ base' = v
    /\ pc' = [pc EXCEPT ![1] = "stored"]
    /\ UNCHANGED <<held, last, count, edits, found>>

\* hydrate(doc); after a failure this is the re-hydration
HydrateQuote ==
    /\ pc[1] \in {"stored", "reconciled", "stale"}
    /\ count.held < MaxHeld
    /\ \E h \in {HydrateRoot(docs[1], TypeOf(base))} :
       /\ h.err = "ok"
       /\ held' = [held EXCEPT ![1] = h.v]
    /\ docs' = [docs EXCEPT ![2] = docs[1]]
    /\ edits' = [edits EXCEPT ![1] = <<>>]
    /\ count' = [count EXCEPT !.held = @ + 1]
    /\ pc' = [pc EXCEPT ![1] = IF pc[1] = "stale" THEN "rehydrated" ELSE "hydrated"]
    /\ UNCHANGED <<last, base, found>>

\* the program edits the struct it holds, each field at most once, in the
\* order of the fields
ChangeQuote(kind) ==
    /\ pc[1] \in {"hydrated", "rehydrated"}
    /\ \A i \in DOMAIN edits[1] : EditRank(edits[1][i]) < EditRank(kind)
    /\ kind = "note" => FieldValue(held[1], "note").value # <<>>
    /\ held' = [held EXCEPT ![1] = EditQuote(@, kind)]
    /\ edits' = [edits EXCEPT ![1] = Append(@, kind)]
    /\ UNCHANGED <<docs, last, count, base, pc, found>>

\* another part of the program puts a number at "s" and commits, while the
\* program holds the struct
WriteAndCommit ==
    /\ pc[1] \in {"hydrated", "rehydrated"}
    /\ count.fresh < MaxFresh
    /\ docs' = [docs EXCEPT ![1] = Commit(DocPut(@, ROOT, Key("s"), ScUint(count.fresh)))]
    /\ count' = [count EXCEPT !.fresh = @ + 1]
    /\ UNCHANGED <<held, last, base, edits, pc, found>>

\* reconcile(doc, &quote) of the struct the program holds
ReconcileQuote ==
    /\ pc[1] \in {"hydrated", "rehydrated"}
    /\ \E d \in {ReconcileRoot(docs[1], held[1])} :
        /\ docs' = [docs EXCEPT ![1] = Returned(d)]
        /\ last' = [op |-> "reconcile", val |-> held[1], before |-> docs[1],
                    err |-> d.err, again |-> pc[1] = "rehydrated"]
        /\ pc' = [pc EXCEPT ![1] = IF d.err = "ok" THEN "reconciled"
                                   ELSE IF d.err = "StaleHeads" THEN "stale"
                                   ELSE "failed"]
    /\ UNCHANGED <<held, count, base, edits, found>>

NextHeads ==
    \/ \E v \in QuoteValues : StoreQuote(v)
    \/ HydrateQuote
    \/ \E kind \in QuoteEdits : ChangeQuote(kind)
    \/ WriteAndCommit
    \/ ReconcileQuote

SpecHeads == InitHeads /\ [][NextHeads]_vars

(***************************************************************************)
(* What the claims speak of.                                               *)
(***************************************************************************)
\* the place in a document an operation gives a value to: a property of a
\* map, or an element of a list
Location(o) ==
    IF o.insert THEN [obj |-> o.obj, prop |-> "", elem |-> o.id]
    ELSE [obj |-> o.obj, prop |-> o.prop, elem |-> o.elem]

Visible(doc) == {o \in doc.ops : o.action \in {"set", "make"} /\ ~Overwritten(doc, o)}

\* the places of a document that hold more than one value
Conflicts(doc) ==
    LET V == Visible(doc) IN
    {Location(o) : o \in {x \in V : \E q \in V : q # x /\ Location(q) = Location(x)}}

FieldOf(obj, name) == [obj |-> obj, prop |-> name, elem |-> HEAD]

RECURSIVE SumOf(_)
SumOf(es) == IF es = <<>> THEN 0 ELSE Head(es).n + SumOf(Tail(es))

Merged(r) == pc[r] = "merged"

\* the document both writers started from
ForkDoc == Commit(Returned(Store(NewDoc(FirstActor), base)))

\* the object in the slot, and the object of element i of the list in the slot
SlotId(doc) == DocGet(doc, ROOT, Slot).id

ItemId(doc, i) == DocGet(doc, SlotId(doc), Index(i)).id

IsList(v, T) == v.ty = "Vec" /\ v.of = T

\* writer a made exactly the change e, and writer b exactly the change f
Made(a, e, b, f) == a # b /\ edits[a] = <<e>> /\ edits[b] = <<f>>

Ed(kind, n) == [kind |-> kind, n |-> n, m |-> 0]

\* the positions of the list both writers started from
Positions == IF base.ty = "Vec" THEN 0..(Len(base.items) - 1) ELSE {}

\* what the document holds, as the type of the first value
Stored(r) == Load(docs[r], TypeOf(base)).v


(***************************************************************************)
(* The claims.                                                             *)
(***************************************************************************)

\* C1: round trip.  Whatever the slot held before, hydrating the slot right
\* after a value was reconciled into it succeeds and gives a value equal to
\* the one reconciled.
RoundTrip ==
    last.op = "hydrate" => last.err = "ok" /\ Norm(held[1]) = Norm(last.val)

\* C2: idempotence.  Reconciling the value that was reconciled just before,
\* unchanged, into the same slot writes nothing to the document.
Idempotence ==
    last.op = "reconcile" /\ last.again => docs[1].ops = last.before.ops

\* C7: stale heads.  Reconciling a Rehydrated Text whose hydration heads are
\* not the heads of the document fails with StaleHeads and writes nothing to
\* the document.
StaleHeadsNoWrite ==
    (/\ last.op = "reconcile"
     /\ last.val.ty = "Text"
     /\ last.val.state = "Rehydrated"
     /\ last.val.from_heads # DocGetHeads(last.before))
    => last.err = "StaleHeads" /\ docs[1].ops = last.before.ops

\* C8: counter commutativity.  Two writers hydrate the counter from forks of
\* one document, increment it and reconcile; whichever document merges the
\* other, the counter is the original value plus all the increments.
CounterMergeSum ==
    \A r \in Replicas :
        Merged(r) /\ base.ty = "Counter"
        => DocGet(docs[r], ROOT, Slot).val
             = ScCounter(CounterValueOf(base) + SumOf(edits[1]) + SumOf(edits[2]))

CounterMergeSumWitness ==
    /\ base.ty = "Counter"
    /\ Merged(1) /\ Merged(2)
    /\ Made(1, Ed("inc", 1), 2, Ed("inc", 2))
    /\ DocGet(docs[1], ROOT, Slot).val = ScCounter(CounterValueOf(base) + 3)
    /\ DocGet(docs[2], ROOT, Slot).val = ScCounter(CounterValueOf(base) + 3)

\* the text a splice makes of a string
Spliced(str, e) == ReplaceRange(str, e.n, e.n + e.m, e.ins)

\* two splices that touch no common position of the text they started from
NonOverlapping(e, f) == e.n + e.m < f.n \/ f.n + f.m < e.n

\* both splices applied to the text: the one further right first, so that the
\* positions of the other still hold
BothSplices(str, e, f) ==
    IF e.n < f.n THEN Spliced(Spliced(str, f), e) ELSE Spliced(Spliced(str, e), f)

\* C9: text merge.  Two writers hydrate the text from forks of one document,
\* each splices it at positions the other does not touch and reconciles; the
\* merged text is the original with both splices, character for character.
TextMergeBoth ==
    \A r \in Replicas :
        (/\ Merged(r) /\ base.ty = "Text"
         /\ Len(edits[1]) = 1 /\ Len(edits[2]) = 1
         /\ NonOverlapping(edits[1][1], edits[2][1]))
        => DocText(docs[r], SlotId(docs[r]))
             = BothSplices(AsStr(base), edits[1][1], edits[2][1])

TextMergeBothWitness ==
    /\ base.ty = "Text"
    /\ Merged(1)
    /\ edits[1] = <<[kind |-> "splice", n |-> 0, m |-> 1, ins |-> <<"y">>]>>
    /\ edits[2] = <<[kind |-> "splice", n |-> 2, m |-> 0, ins |-> <<"z">>]>>
    /\ DocText(docs[1], SlotId(docs[1])) = <<"y", "b", "z">>

\* the key the document holds in the slot, and at element i of the list in
\* the slot
SlotKey(doc) == HydrateKey(doc, ROOT, Slot, TPerson).key

ItemKey(doc, i) == HydrateKey(doc, SlotId(doc), Index(i), TPerson).key

\* both writers gave a new name to the same keyed object: the struct in the
\* slot, or element i of the list in the slot
BothRenamed(i) ==
    \/ base.ty = "Struct" /\ Made(1, Ed("set_name", 0), 2, Ed("set_name", 0))
    \/ base.ty = "Vec" /\ Made(1, Ed("rename", i), 2, Ed("rename", i))

\* C3: identity preservation.  A keyed struct in a map field, or a keyed
\* element of a list, reconciled with a value whose key is the key the
\* document already holds there, keeps its object id; when both writers
\* changed the same field of it, the merged document holds a conflict on that
\* field of that one object, and no conflict on the place of the object.
IdentityPreserved ==
    \A r \in Replicas :
        /\ (/\ pc[r] = "reconciled" /\ base.ty = "Struct" /\ ~AtRoot(base)
            /\ SlotKey(ForkDoc) = KeyOf(held[r]))
           => SlotId(docs[r]) = SlotId(ForkDoc)
        /\ (pc[r] = "reconciled" /\ IsList(base, TPerson))
           => \A i \in Positions, j \in 0..(Len(held[r].items) - 1) :
                  ItemKey(ForkDoc, i) = KeyOf(held[r].items[j + 1])
                  => ItemId(docs[r], j) = ItemId(ForkDoc, i)
        /\ (Merged(r) /\ ~AtRoot(base) /\ base.ty = "Struct" /\ BothRenamed(0))
           => /\ SlotId(docs[r]) = SlotId(ForkDoc)
              /\ Conflicts(docs[r]) = {FieldOf(SlotId(ForkDoc), "name")}
        /\ \A i \in Positions :
              (Merged(r) /\ IsList(base, TPerson) /\ BothRenamed(i))
              => /\ ItemId(docs[r], i) = ItemId(ForkDoc, i)
                 /\ Conflicts(docs[r]) = {FieldOf(ItemId(ForkDoc, i), "name")}

IdentityPreservedWitness ==
    /\ IsList(base, TPerson)
    /\ Merged(1) /\ Merged(2)
    /\ BothRenamed(1)
    /\ ItemId(docs[1], 1) = ItemId(ForkDoc, 1)
    /\ FieldOf(ItemId(ForkDoc, 1), "name") \in Conflicts(docs[2])

\* C4: unrelated fields.  One writer changes a top-level field of the struct,
\* the other a field of the nested struct, each reconciles the whole struct;
\* the merged document holds both changes and no conflict anywhere.
UnrelatedFieldsMerge ==
    \A r, a, b \in Replicas :
        (/\ Merged(r) /\ AtRoot(base)
         /\ Made(a, Ed("set_name", 0), b, Ed("set_line", 0)))
        => /\ Stored(r) = Contact(Letter(a), Letter(b))
           /\ Conflicts(docs[r]) = {}

UnrelatedFieldsMergeWitness ==
    /\ AtRoot(base)
    /\ Merged(1) /\ Merged(2)
    /\ Made(1, Ed("set_name", 0), 2, Ed("set_line", 0))
    /\ Stored(2) = Contact("y", "z")

\* C5: keyed list merge.  One writer inserts a new element at the front and
\* the other removes an element, or the two remove different elements; the
\* merged list holds exactly the elements the two changes leave, in order,
\* and the document holds no conflict.
KeyedListMerge ==
    \A r, a, b \in Replicas : \A i, j \in Positions :
        /\ (/\ Merged(r) /\ IsList(base, TPerson)
            /\ Made(a, Ed("insert_front", 0), b, Ed("remove", i)))
           => /\ Stored(r).items = <<NewElem(TPerson, a)>> \o RemoveAt(base.items, i)
              /\ Conflicts(docs[r]) = {}
        /\ (/\ Merged(r) /\ IsList(base, TPerson) /\ i < j
            /\ Made(a, Ed("remove", i), b, Ed("remove", j)))
           => /\ Stored(r).items = RemoveAt(RemoveAt(base.items, j), i)
              /\ Conflicts(docs[r]) = {}

KeyedListMergeWitness ==
    /\ IsList(base, TPerson)
    /\ Merged(2)
    /\ Made(1, Ed("insert_front", 0), 2, Ed("remove", 0))
    /\ Stored(2).items = <<Person(3, "y"), Person(2, "b")>>

\* the operations writer `a` added to the document since the fork
OpsOf(doc, a) == {o \in doc.ops \ ForkDoc.ops : o.id[2] = docs[a].actor}

\* C6: keyless list merge.  One writer inserts a new element at the front,
\* the other removes element i.  The first wrote the insertion as updates of
\* the elements already there and one new element after the last; every
\* element both writers updated holds a conflict on each of its fields in the
\* merged document.
KeylessListConflicts ==
    \A r, a, b \in Replicas : \A i \in Positions :
        (/\ Merged(r) /\ IsList(base, TProduct)
         /\ Made(a, Ed("insert_front", 0), b, Ed("remove", i)))
        => /\ \A p \in Positions :
                  \E o \in OpsOf(docs[r], a) :
                      o.obj = ItemId(ForkDoc, p) /\ o.action = "set"
           /\ \A o \in OpsOf(docs[r], a) :
                  o.insert => o.elem = ItemId(ForkDoc, Len(base.items) - 1)
           /\ \A p \in i..(Len(base.items) - 2) : \A f \in {"id", "name"} :
                  FieldOf(ItemId(ForkDoc, p), f) \in Conflicts(docs[r])

KeylessListConflictsWitness ==
    /\ IsList(base, TProduct)
    /\ Merged(1)
    /\ Made(1, Ed("insert_front", 0), 2, Ed("remove", 0))
    /\ Conflicts(docs[1]) = {FieldOf(ItemId(ForkDoc, 0), "id"),
                             FieldOf(ItemId(ForkDoc, 0), "name")}

\* the object the first i segments of a path lead to from the root, when each
\* of them names an object
RECURSIVE Reach(_, _, _)
Reach(doc, path, i) ==
    IF i = 0 THEN [ok |-> TRUE, obj |-> ROOT]
    ELSE LET p == Reach(doc, path, i - 1)
             g == DocGet(doc, p.obj, path[i])
         IN  IF p.ok /\ g.some /\ g.val.kind \in ObjKinds
             THEN [ok |-> TRUE, obj |-> g.id]
             ELSE [ok |-> FALSE, obj |-> ROOT]

\* segment i of the path is the first that names nothing in the document
MissingAt(doc, path, i) ==
    /\ Reach(doc, path, i - 1).ok
    /\ ~DocGet(doc, Reach(doc, path, i - 1).obj, path[i]).some

\* C10: hydrate_path over a path with an intermediate segment that does not
\* exist returns Ok(None), and reads nothing for the segments after it.
MissingSegmentIsNone ==
    \A i \in 1..(Len(found.path) - 1) :
        MissingAt(docs[1], found.path, i)
        => /\ found.res.err = "ok"
           /\ ~found.res.some
           /\ \A k \in DOMAIN found.res.reads : found.res.reads[k].seg <= i

MissingSegmentIsNoneWitness ==
    /\ Len(found.path) = 3
    /\ MissingAt(docs[1], found.path, 2)
    /\ found.res.err = "ok"
    /\ ~found.res.some
    /\ Len(found.res.reads) = 2

\* the objects visible at entry `name` of the root map
EntryObjects(doc, name) == {o \in MapOps(doc, ROOT, name) : o.action = "make"}

\* the object `id` of the document read as a Person
PersonAt(doc, id) ==
    HydrateValue(doc, [some |-> TRUE, val |-> Obj("Map"), id |-> id], TPerson).v

UserId(doc) == DocGet(doc, ROOT, Key("user")).id

BothReplaced == base.ty = "Map" /\ Made(1, Ed("replace_entry", 0), 2, Ed("replace_entry", 0))

\* C11: keyed replacement in a map.  A HashMap entry reconciled with a value
\* whose key is Found and differs from the key hydrated from the entry is
\* deleted and put again: the entry holds a new object with the fields of the
\* new value.  When both writers replaced the entry, the merged document
\* holds their two objects whole, in conflict at the entry, and no conflict
\* inside either object.
KeyedEntryReplaced ==
    \A r \in Replicas :
        /\ (pc[r] = "reconciled" /\ base.ty = "Map" /\ edits[r] = <<Ed("replace_entry", 0)>>)
           => /\ UserId(docs[r]) # UserId(ForkDoc)
              /\ \E o \in docs[r].ops : o.action = "del" /\ UserId(ForkDoc) \in o.pred
              /\ PersonAt(docs[r], UserId(docs[r])) = held[r].entries[1].v
        /\ (Merged(r) /\ BothReplaced)
           => /\ Conflicts(docs[r]) = {FieldOf(ROOT, "user")}
              /\ UserId(ForkDoc) \notin {o.id : o \in EntryObjects(docs[r], "user")}
              /\ {PersonAt(docs[r], o.id) : o \in EntryObjects(docs[r], "user")}
                     = {held[a].entries[1].v : a \in Replicas}

KeyedEntryReplacedWitness ==
    /\ Merged(1) /\ Merged(2)
    /\ BothReplaced
    /\ Cardinality(EntryObjects(docs[1], "user")) = 2
    /\ UserId(docs[1]) # UserId(ForkDoc)

\* the object under `item` of the map in the slot
ContainedId(doc) == DocGet(doc, SlotId(doc), Key("item")).id

IsContainer(v) == v.ty = "Struct" /\ v.key = "none" /\ v.fields[1].name = "item"

\* the property holds a map object from which a key can be read
KeyedMapAt(doc, obj, prop) ==
    /\ DocGet(doc, obj, prop).some
    /\ DocGet(doc, obj, prop).val = Obj("Map")
    /\ HydrateKey(doc, obj, prop, TPerson).key.tag = "Found"

\* the value has a key and it is not the key of the map object at the property
KeyDiffers(doc, obj, prop, value) ==
    /\ KeyedMapAt(doc, obj, prop)
    /\ KeyOf(value).tag = "Found"
    /\ KeyOf(value).k # HydrateKey(doc, obj, prop, TPerson).key.k

\* the value cannot supply a key and the property holds a keyed map object
KeyMissing(doc, obj, prop, value) ==
    /\ KeyedMapAt(doc, obj, prop)
    /\ KeyOf(value).tag = "KeyNotFound"

\* C12: a different key makes a new object.  When reconcile_prop, or the put
\* of a map reconciler, writes a keyed value whose key differs from the key
\* of the map object already at the property, the object found at the
\* property afterwards is not the object that was there before.
DifferentKeyNewObject ==
    (last.op = "reconcile" /\ last.err = "ok")
    => /\ KeyDiffers(last.before, ROOT, Slot, last.val)
          => SlotId(docs[1]) # SlotId(last.before)
       /\ (/\ IsContainer(last.val)
           /\ KeyDiffers(last.before, SlotId(last.before), Key("item"), last.val.fields[1].v))
          => ContainedId(docs[1]) # ContainedId(last.before)

\* C13: a value without a key makes a new object.  When the value written
\* cannot supply a key (KeyNotFound) and the property holds a keyed map
\* object, reconcile_prop and the put of a map reconciler leave at the
\* property an object that is not the one that was there before.
FreshOverKeyedNewObject ==
    (last.op = "reconcile" /\ last.err = "ok")
    => /\ KeyMissing(last.before, ROOT, Slot, last.val)
          => SlotId(docs[1]) # SlotId(last.before)
       /\ (/\ IsContainer(last.val)
           /\ KeyMissing(last.before, SlotId(last.before), Key("item"), last.val.fields[1].v))
          => ContainedId(docs[1]) # ContainedId(last.before)

\* the value's reconcile asks the reconciler for a map
RECURSIVE RequestsMap(_)
RequestsMap(v) ==
    IF v.ty = "Option" THEN v.some /\ RequestsMap(v.inner)
    ELSE v.ty \in {"Struct", "Map"}

\* the fields of a struct or the entries of a map, through Some
RECURSIVE TopFields(_)
TopFields(v) ==
    IF v.ty = "Option" THEN TopFields(v.inner)
    ELSE IF v.ty = "Struct" THEN v.fields
    ELSE v.entries

\* every field of v is a property of the root object of the document, and
\* nothing else of the root object was written since `before`
WrittenAtRoot(doc, before, v) ==
    /\ \A i \in DOMAIN TopFields(v) :
          With(TopFields(v)[i], LAMBDA f :
              With(HydrateProp(doc, ROOT, Key(f.name), TypeOf(f.v)), LAMBDA h :
                  h.err = "ok" /\ Norm(h.v) = Norm(f.v)))
    /\ \A o \in doc.ops \ before.ops :
          o.obj = ROOT => \E i \in DOMAIN TopFields(v) : o.prop = TopFields(v)[i].name

\* C14: the root must be a map.  reconcile(doc, value) fails with
\* TopLevelNotMap and leaves the document as it was whenever the value asks
\* the reconciler for anything but a map (a scalar, none, a list, a text, a
\* counter); a value that asks for a map succeeds and its fields are written
\* to the root object.
RootMustBeMap ==
    last.op = "reconcile_root"
    => IF RequestsMap(last.val)
       THEN last.err = "ok" /\ WrittenAtRoot(docs[1], last.before, last.val)
       ELSE last.err = "TopLevelNotMap" /\ docs[1] = last.before

RootMustBeMapWitness ==
    /\ last.op = "reconcile_root"
    /\ last.err = "TopLevelNotMap"
    /\ last.val.ty = "Counter"
    /\ last.before.ops # {}
    /\ docs[1] = last.before

\* C15: a Rehydrated Counter only increments.  Whatever the slot held
\* before, reconciling a Rehydrated Counter writes nothing but an increment
\* operation carrying its accumulated increment: no put, no insert.
RehydratedCounterOnlyIncrements ==
    (/\ last.op = "reconcile"
     /\ last.val.ty = "Counter"
     /\ last.val.state = "Rehydrated")
    => \A o \in docs[1].ops \ last.before.ops :
           o.action = "inc" /\ o.val.n = last.val.increment

RECURSIVE SeqSum(_)
SeqSum(q) == IF q = <<>> THEN 0 ELSE Head(q) + SeqSum(Tail(q))

\* C16: the value of a counter.  After any increments, value() of a
\* Rehydrated counter is original + increment, where original is still the
\* value read at hydration and increment is the sum of the deltas since;
\* value() of a Fresh counter is its first value plus the sum of the deltas.
CounterValueIsSum ==
    pc[1] = "counting"
    => /\ held[1].state = base.state
       /\ CounterValueOf(held[1]) = CounterValueOf(base) + SeqSum(edits[1])
       /\ held[1].state = "Rehydrated"
          => /\ held[1].original = base.original
             /\ held[1].increment = SeqSum(edits[1])
             /\ CounterValueOf(held[1]) = held[1].original + held[1].increment

CounterValueIsSumWitness ==
    /\ pc[1] = "counting"
    /\ held[1].state = "Rehydrated"
    /\ Len(edits[1]) = MaxIncrements
    /\ held[1].original = 2
    /\ held[1].increment = 2
    /\ CounterValueOf(held[1]) = 4

\* the strings of the list in the slot
SlotStrings(doc) == HydrateProp(doc, ROOT, Slot, TVec(TString)).v.items

\* C17: a tuple over a list.  After an N-tuple is reconciled into a slot
\* that holds a list of any length, the call has succeeded and the list has
\* exactly N elements, element i being field i of the tuple.
TupleOverList ==
    (/\ last.op = "reconcile"
     /\ last.val.ty = "Tuple"
     /\ DocGet(last.before, ROOT, Slot).val = Obj("List"))
    => /\ last.err = "ok"
       /\ DocLength(docs[1], SlotId(docs[1])) = Len(last.val.items)
       /\ SlotStrings(docs[1]) = last.val.items

\* C18: a Fresh Text over a Text.  After a Fresh Text is reconciled into a
\* slot that already holds a Text object, hydrating the slot gives exactly
\* the string of the Fresh Text, with nothing of the previous content.
FreshTextReplaces ==
    (/\ last.op = "reconcile"
     /\ last.val.ty = "Text"
     /\ last.val.state = "Fresh"
     /\ DocGet(last.before, ROOT, Slot).val = Obj("Text"))
    => /\ last.err = "ok"
       /\ AsStr(HydrateProp(docs[1], ROOT, Slot, TText).v) = AsStr(last.val)

\* C19: reconciling back what was hydrated.  A writer that hydrates the
\* value from its document and reconciles it back unmodified succeeds, and
\* hydrating again gives a value equal to the one it hydrated (and to the
\* one first stored): for an Option<Text> the text is still there, once.
RereconcileKeepsContent ==
    \A r \in Replicas :
        (pc[r] \in {"reconciled", "failed"} /\ edits[r] = <<>>)
        => /\ pc[r] = "reconciled"
           /\ Norm(Stored(r)) = Norm(held[r])
           /\ Norm(Stored(r)) = Norm(base)

RereconcileKeepsContentWitness ==
    /\ pc[1] = "reconciled"
    /\ edits[1] = <<>>
    /\ base = VSome(TText, TextWithValue(<<"a", "b">>))
    /\ held[1].inner.state = "Rehydrated"
    /\ AsStr(Stored(1).inner) = <<"a", "b">>

\* C20: Text::update.  After update(s) the Text reads s, Fresh or
\* Rehydrated; and when the updated Rehydrated Text is reconciled into the
\* document it was hydrated from, whose text is the string before the
\* update, the splices of the update are replayed and the text is exactly s.
UpdateGivesNewString ==
    /\ pc[1] \in {"updated", "reconciled", "failed"} => AsStr(held[1]) = AsStr(last.val)
    /\ pc[1] \in {"reconciled", "failed"}
       => /\ pc[1] = "reconciled"
          /\ DocText(docs[1], SlotId(docs[1])) = AsStr(last.val)

\* C21: any missing property gives None.  When a property of the path given
\* to hydrate_path names nothing in the document, be it the last one,
\* hydrate_path returns Ok(None).
AnyMissingIsNone ==
    \A i \in 1..Len(found.path) :
        MissingAt(docs[1], found.path, i) => found.res.err = "ok" /\ ~found.res.some

\* segment i of the path is the first that names a scalar
ScalarAt(doc, path, i) ==
    /\ Reach(doc, path, i - 1).ok
    /\ DocGet(doc, Reach(doc, path, i - 1).obj, path[i]).some
    /\ DocGet(doc, Reach(doc, path, i - 1).obj, path[i]).val.kind \notin ObjKinds

\* C26: a scalar in the middle of the path.  When a segment that is not the
\* last names a scalar, hydrate_path returns Ok(None) and looks no later
\* segment up, whatever the length of the path.
ScalarStopsPath ==
    \A i \in 1..(Len(found.path) - 1) :
        ScalarAt(docs[1], found.path, i)
        => /\ found.res.err = "ok"
           /\ ~found.res.some
           /\ \A k \in DOMAIN found.res.reads : found.res.reads[k].seg <= i
\* the slot of the document held a list
HeldList(doc) ==
    DocGet(doc, ROOT, Slot).some /\ DocGet(doc, ROOT, Slot).val = Obj("List")

\* a list was reconciled over the list the slot held
SeqOverList == last.op = "reconcile_seq" /\ last.err = "ok" /\ HeldList(last.before)

\* element i of the list in the slot hydrates to the value v
ElementIs(doc, i, v) ==
    With(Hydrate(doc, SlotId(doc), Index(i), TypeOf(v)), LAMBDA h :
        h.err = "ok" /\ Norm(h.v) = Norm(v))

\* C22: the postcondition of reconcile_seq.  After a list `items` was
\* reconciled over a list of any length and contents, the list in the
\* document has exactly Len(items) elements, and element i holds items[i],
\* in the order of items.
SeqPostcondition ==
    SeqOverList
    => /\ DocLength(docs[1], SlotId(docs[1])) = Len(last.val.items)
       /\ \A i \in DOMAIN last.val.items : ElementIs(docs[1], i - 1, last.val.items[i])

\* a shorter list of other elements, some of them in another order, was
\* reconciled over a longer one
SeqPostconditionWitness ==
    /\ SeqOverList
    /\ DocLength(last.before, SlotId(last.before)) > Len(last.val.items)
    /\ Len(last.val.items) > 1
    /\ \E k \in DOMAIN last.steps : last.steps[k].call = "delete"
    /\ \E k \in DOMAIN last.steps : last.steps[k].call = "insert"

\* C30: the write cursor of the diff.  Every set and every delete is made at
\* an index below the length the list has at that moment, every insert at an
\* index at most that length; a delete leaves the cursor where it is, a set
\* and an insert move it on by one; the diff ends with the cursor at
\* Len(items).
WriteCursor ==
    (last.op = "reconcile_seq" /\ last.err = "ok")
    => /\ \A k \in DOMAIN last.steps :
            /\ last.steps[k].call \in {"set", "delete"} => last.steps[k].idx < last.steps[k].len
            /\ last.steps[k].call = "insert" => last.steps[k].idx <= last.steps[k].len
            /\ last.steps[k].idx
                 = (IF k = 1 THEN 0
                    ELSE last.steps[k - 1].idx
                         + (IF last.steps[k - 1].call = "delete" THEN 0 ELSE 1))
       /\ last.cursor = Len(last.val.items)
       /\ last.steps # <<>>
          => last.cursor = last.steps[Len(last.steps)].idx
                           + (IF last.steps[Len(last.steps)].call = "delete" THEN 0 ELSE 1)

\* a diff that made all three calls, a delete before a set or an insert
WriteCursorWitness ==
    /\ last.op = "reconcile_seq" /\ last.err = "ok"
    /\ {last.steps[k].call : k \in DOMAIN last.steps} = {"set", "delete", "insert"}
    /\ \E k \in DOMAIN last.steps :
          /\ last.steps[k].call = "delete"
          /\ k < Len(last.steps)
          /\ last.steps[k + 1].call # "delete"


\* the elements of the list in the slot before and after the reconcile, by
\* the ids the document gives them
OldElems == Elems(last.before, SlotId(last.before))

NewElems == Elems(docs[1], SlotId(docs[1]))

\* the key the diff hydrates for the old element i, and the key of the new
\* element j
OldKeyAt(i) == HydrateItemKey(last.before, SlotId(last.before), i, last.val.of)

NewKeyAt(j) == KeyOf(last.val.items[j + 1])

\* old element i and new element j may be matched: both keys are Found and
\* equal, or neither is Found and i = j
Eligible(i, j) ==
    \/ OldKeyAt(i).tag = "Found" /\ NewKeyAt(j).tag = "Found" /\ OldKeyAt(i).k = NewKeyAt(j).k
    \/ OldKeyAt(i).tag # "Found" /\ NewKeyAt(j).tag # "Found" /\ i = j

EligiblePairs ==
    {p \in (0..(Len(OldElems) - 1)) \X (0..(Len(last.val.items) - 1)) : Eligible(p[1], p[2])}

\* old element i is still in the list, as element j: it was set in place
KeptPairs ==
    {p \in (0..(Len(OldElems) - 1)) \X (0..(Len(NewElems) - 1)) :
        OldElems[p[1] + 1] = NewElems[p[2] + 1]}

\* no two eligible pairs cross or share an element
NonCrossing ==
    \A p, q \in EligiblePairs : (p[1] < q[1]) <=> (p[2] < q[2])

EntryNames(v) == {v.entries[i].name : i \in DOMAIN v.entries}

\* C24: the postcondition of reconciling a map.  After a HashMap/BTreeMap is
\* reconciled over a map of the document, the keys of the document map are
\* the keys of the value: an entry the value does not have is removed.
MapKeysAreValueKeys ==
    (last.op = "reconcile_root" /\ last.err = "ok" /\ last.val.ty = "Map")
    => DocKeys(docs[1], ROOT) = EntryNames(last.val)


\* the text the program hydrated was spliced and reconciled
SplicedAndReconciled == last.op = "splice" /\ pc[1] = "reconciled"

\* C25: the shadow string and the document agree.  After a Text hydrated
\* from the document was spliced any number of times (with positive and
\* with negative del, within the string) and reconciled with the heads
\* unchanged, the text of the document is as_str().
ShadowAgrees ==
    SplicedAndReconciled => DocText(docs[1], SlotId(docs[1])) = AsStr(held[1])

\* the same, for a text of one-byte characters only
OneByteText == \A i \in DOMAIN base.value : Utf8Len(base.value[i]) = 1

ShadowAgreesOneByte ==
    (SplicedAndReconciled /\ OneByteText)
    => DocText(docs[1], SlotId(docs[1])) = AsStr(held[1])


\* what is at outer/inner, hydrated as the type of the key: the object at
\* `outer` has to be there for anything to be at outer/inner
AtOuterInner ==
    IF Reach(docs[1], found.path, 1).ok
    THEN Hydrate(docs[1], Reach(docs[1], found.path, 1).obj, found.path[2], found.T)
    ELSE HErr("Unexpected")

\* C27: hydrate_key softens what it finds.  It returns Found(k) when the
\* value at outer/inner hydrates to k, KeyNotFound when the path is missing
\* or the hydration is Unexpected, an error only for a fault of the document
\* engine, and never NoKey.
KeySoftened ==
    pc[1] = "keyed"
    => /\ found.key.key.tag # "NoKey"
       /\ found.key.err \in {"ok", "Automerge"}
       /\ found.key.err = "ok"
          => found.key.key = (IF AtOuterInner.err = "ok"
                              THEN Found(KeyValue(AtOuterInner.v))
                              ELSE KeyNotFound)


\* the struct was reconciled and the program still holds it
QuoteReconciled == last.op = "reconcile" /\ pc[1] \in {"reconciled", "stale", "failed"}

\* the heads the Text fields of the struct were hydrated at
TextHeads(v) == {FieldValue(v, name).from_heads : name \in {"text", "note"}}

\* the text of a Text field of the struct at the root
RootText(doc, name) == DocText(doc, DocGet(doc, ROOT, Key(name)).id)

\* C28: recovery from StaleHeads.  After a reconcile failed with StaleHeads
\* the program hydrates again, applies its edits again and reconciles: when
\* the heads did not move between that hydrate and the reconcile, the
\* reconcile succeeds and the document holds the edited texts.  The failed
\* reconcile itself applied no edit to the texts.
StaleHeadsRecovery ==
    /\ (QuoteReconciled /\ last.again /\ DocGetHeads(docs[2]) = DocGetHeads(last.before))
       => /\ last.err = "ok"
          /\ \A name \in {"text", "note"} :
                RootText(docs[1], name) = AsStr(FieldValue(last.val, name))
    /\ (QuoteReconciled /\ last.err = "StaleHeads")
       => \A name \in {"text", "note"} :
             RootText(docs[1], name) = RootText(last.before, name)

\* the second attempt, with both texts spliced again, after a commit
StaleHeadsRecoveryWitness ==
    /\ QuoteReconciled /\ last.again /\ last.err = "ok"
    /\ DocGetHeads(docs[2]) = DocGetHeads(last.before)
    /\ DocGetHeads(last.before) # {}
    /\ Len(edits[1]) = 3

\* C29: the heads are read once, when the call starts, and every nested
\* reconciler gets them.  A struct whose Text fields were hydrated at the
\* heads the document has when reconcile is called never fails with
\* StaleHeads, whatever the same call wrote before it comes to a Text.
HeadsReadOnce ==
    (QuoteReconciled /\ TextHeads(last.val) = {DocGetHeads(last.before)})
    => last.err # "StaleHeads"

\* the call wrote the author and the first text before it came to the
\* second text, in a document that has heads
HeadsReadOnceWitness ==
    /\ QuoteReconciled /\ last.err = "ok"
    /\ TextHeads(last.val) = {DocGetHeads(last.before)}
    /\ DocGetHeads(last.before) # {}
    /\ Len(edits[1]) = 3
    /\ FieldValue(last.val, "note").edits # <<>>
    /\ Cardinality(docs[1].ops \ last.before.ops) >= 3


====
